---- MODULE Spec2Model ----
(***************************************************************************)
(* Model of the IRI facility API core: adapter resolution and route-group  *)
(* visibility (app/routers/iri_router.py), the discovery endpoint and the  *)
(* router attachment (app/main.py), the task command dispatcher            *)
(* (app/routers/task/facility_adapter.py), the auth gate                   *)
(* (get_client_ip and IriRouter.current_user) and the filter engine        *)
(* (the find functions of app/routers/models.py and status/models.py).     *)
(*                                                                         *)
(* Python strings that are built by the code (f-strings) are sequences of  *)
(* string tokens: concatenation is \o and "text contains s" is "s is one   *)
(* of the tokens".                                                         *)
(***************************************************************************)
EXTENDS Integers, Sequences, FiniteSets, TLC

VARIABLES env, pc, routers, appRoutes, resolutions, created, lastTask, discovery, probe,
          request, query, invocations

vars == <<env, pc, routers, appRoutes, resolutions, created, lastTask, discovery, probe,
          request, query, invocations>>

----------------------------------------------------------------------------
(* Bounds *)

\* create_adapter calls per group after which the model stops dispatching
MaxResolutions == 3

----------------------------------------------------------------------------
(* Process environment (os.environ) *)

\* the route groups, in the order main.py imports and attaches them
RouterOrder == <<"facility", "status", "account", "compute", "filesystem", "task">>

Groups == {RouterOrder[i] : i \in 1..Len(RouterOrder)}

\* the capability interfaces (the per-group FacilityAdapter classes)
Capabilities == Groups

\* os.environ has no such key
Unset == "<unset>"

\* the variable has not been consulted yet; its value is fixed by the first read
Unread == "<unread>"

\* Python None, where a string is expected
NoneName == "<None>"

ShowMissingKey == "IRI_SHOW_MISSING_ROUTES"

\* f"IRI_API_ADAPTER_{router_name}": the key of a group is modelled by the group's name
EnvKey(router_name) == router_name

EnvKeys == Groups \cup {ShowMissingKey}

DefaultAdapterName == "app.demo_adapter.DemoAdapter"

\* the values for which the flag counts as enabled
ShowMissingValues == {"true", "1", "on", "yes"}

\* values of IRI_SHOW_MISSING_ROUTES drawn by the pure-resolution specification
FlagValues == ShowMissingValues \cup {Unset, "", "True", "false", "0"}

\* values of IRI_SHOW_MISSING_ROUTES drawn by the process specification
ProcessFlagValues == {Unset, "yes", "false"}

\* implementation identifiers a deployment may configure
AdapterNames == {DefaultAdapterName, "site.adapters.StatusAdapter", "site.adapters.Missing",
                 "nomodule.Adapter", "adapter", ""}

AdapterValues == AdapterNames \cup {Unset}

\* values of a group's key drawn by the process specification
ProcessAdapterValues == {Unset, "", "site.adapters.StatusAdapter", "nomodule.Adapter"}

\* the environments a read of a group's key can find, given what was read so far:
\* the flag is consulted only when the group's key is not set
EnvWhenRead(e, router_name) ==
    LET keyValues == IF e[EnvKey(router_name)] = Unread THEN ProcessAdapterValues ELSE {e[EnvKey(router_name)]}
        flagValues(v) == IF v = Unset /\ e[ShowMissingKey] = Unread THEN ProcessFlagValues ELSE {e[ShowMissingKey]}
    IN  UNION {{[e EXCEPT ![EnvKey(router_name)] = v, ![ShowMissingKey] = f] : f \in flagValues(v)} : v \in keyValues}

----------------------------------------------------------------------------
(* The loadable code of a deployment: what importlib, getattr and issubclass
   answer for an implementation identifier *)

\* adapter_name.rsplit(".", 1)
rsplit(adapter_name) ==
    CASE adapter_name = DefaultAdapterName -> <<"app.demo_adapter", "DemoAdapter">>
      [] adapter_name = "site.adapters.StatusAdapter" -> <<"site.adapters", "StatusAdapter">>
      [] adapter_name = "site.adapters.Missing" -> <<"site.adapters", "Missing">>
      [] adapter_name = "nomodule.Adapter" -> <<"nomodule", "Adapter">>
      [] OTHER -> <<adapter_name>>

\* modules importlib.import_module can load
ImportableModules == {"app.demo_adapter", "site.adapters"}

\* classes defined by the importable modules
ModuleClasses == {<<"app.demo_adapter", "DemoAdapter">>, <<"site.adapters", "StatusAdapter">>}

\* issubclass(AdapterClass, router_adapter): the demonstration adapter implements every
\* group's interface, the site's status adapter only the status interface
issubclass(adapter_class, router_adapter) ==
    \/ adapter_class = <<"app.demo_adapter", "DemoAdapter">>
    \/ adapter_class = <<"site.adapters", "StatusAdapter">> /\ router_adapter = "status"

----------------------------------------------------------------------------
(* Adapter Registry: IriRouter._get_adapter_name, IriRouter.create_adapter *)

NoAdapter == [impl |-> NoneName, group |-> NoneName, serial |-> 0]

NoExc == <<>>

Truthy(adapter) == adapter # NoAdapter

\* a variant that hides the group as soon as the flag is not enabled
_get_adapter_name_flag_only(e, router_name) ==
    IF e[ShowMissingKey] \notin ShowMissingValues
    THEN NoneName
    ELSE IF e[EnvKey(router_name)] = Unset THEN DefaultAdapterName ELSE e[EnvKey(router_name)]

\* os.environ.get(env_var, "app.demo_adapter.DemoAdapter"), None when the group is to be hidden
_get_adapter_name(e, router_name) ==
    IF e[EnvKey(router_name)] = Unset /\ e[ShowMissingKey] \notin ShowMissingValues
    THEN NoneName
    ELSE IF e[EnvKey(router_name)] = Unset THEN DefaultAdapterName ELSE e[EnvKey(router_name)]

\* the outcome of one create_adapter call: the adapter returned or the exception raised,
\* and the implementation that was instantiated on the way ("" for none)
Returned(adapter, inst) == [kind |-> "return", adapter |-> adapter, exc |-> NoExc, instantiated |-> inst]

Raised(exc, inst) == [kind |-> "raise", adapter |-> NoAdapter, exc |-> exc, instantiated |-> inst]

\* a variant that resolves a group once and reports it absent on every later call
create_adapter_once(e, router_name, router_adapter, serial) ==
    LET adapter_name == _get_adapter_name(e, router_name)
        parts == rsplit(adapter_name)
    IN  IF adapter_name = NoneName \/ adapter_name = "" \/ serial > 1
        THEN Returned(NoAdapter, "")
        ELSE IF parts[1] \notin ImportableModules
        THEN Raised(<<"No module named ", parts[1]>>, "")
        ELSE IF Len(parts) < 2
        THEN Raised(<<"list index out of range">>, "")
        ELSE IF <<parts[1], parts[2]>> \notin ModuleClasses
        THEN Raised(<<"module ", parts[1], " has no attribute ", parts[2]>>, "")
        ELSE IF ~issubclass(<<parts[1], parts[2]>>, router_adapter)
        THEN Raised(<<adapter_name, " should implement FacilityAdapter">>, "")
        ELSE Returned([impl |-> adapter_name, group |-> router_name, serial |-> serial], adapter_name)

\* a variant that instantiates the class before it checks it
create_adapter_checks_instance(e, router_name, router_adapter, serial) ==
    LET adapter_name == _get_adapter_name(e, router_name)
        parts == rsplit(adapter_name)
    IN  IF adapter_name = NoneName \/ adapter_name = ""
        THEN Returned(NoAdapter, "")
        ELSE IF parts[1] \notin ImportableModules
        THEN Raised(<<"No module named ", parts[1]>>, "")
        ELSE IF Len(parts) < 2
        THEN Raised(<<"list index out of range">>, "")
        ELSE IF <<parts[1], parts[2]>> \notin ModuleClasses
        THEN Raised(<<"module ", parts[1], " has no attribute ", parts[2]>>, "")
        ELSE IF ~issubclass(<<parts[1], parts[2]>>, router_adapter)
        THEN Raised(<<adapter_name, " should implement FacilityAdapter">>, adapter_name)
        ELSE Returned([impl |-> adapter_name, group |-> router_name, serial |-> serial], adapter_name)

\* serial numbers the instance this call creates, if it creates one
create_adapter(e, router_name, router_adapter, serial) ==
    LET adapter_name == _get_adapter_name(e, router_name)
        parts == rsplit(adapter_name)
    IN  IF adapter_name = NoneName \/ adapter_name = ""
        THEN Returned(NoAdapter, "")
        ELSE IF parts[1] \notin ImportableModules
        THEN Raised(<<"No module named ", parts[1]>>, "")
        ELSE IF Len(parts) < 2
        THEN Raised(<<"list index out of range">>, "")
        ELSE IF <<parts[1], parts[2]>> \notin ModuleClasses
        THEN Raised(<<"module ", parts[1], " has no attribute ", parts[2]>>, "")
        ELSE IF ~issubclass(<<parts[1], parts[2]>>, router_adapter)
        THEN Raised(<<adapter_name, " should implement FacilityAdapter">>, "")
        ELSE Returned([impl |-> adapter_name, group |-> router_name, serial |-> serial], adapter_name)

----------------------------------------------------------------------------
(* Route groups: IriRouter.__init__ *)

NotBuilt == [built |-> FALSE, adapter |-> NoAdapter, task_adapter |-> NoAdapter, include_in_schema |-> TRUE]

Router(adapter, task_adapter, include_in_schema) ==
    [built |-> TRUE, adapter |-> adapter, task_adapter |-> task_adapter, include_in_schema |-> include_in_schema]

\* the task_router_adapter argument of a group's construction: the groups under
\* app/routers pass none; the filesystem group may pass the task interface
TaskRouterAdapters(router_name) == IF router_name = "filesystem" THEN {NoneName, "task"} ELSE {NoneName}

\* a variant that never clears include_in_schema for an absent adapter of its own
IriRouter__init__keeps_visible(own, task_router_adapter, task) ==
    IF own.kind = "raise"
    THEN [kind |-> "raise", exc |-> own.exc, router |-> NotBuilt]
    ELSE IF task_router_adapter = NoneName
    THEN [kind |-> "return", exc |-> NoExc, router |-> Router(own.adapter, NoAdapter, TRUE)]
    ELSE IF task.kind = "raise"
    THEN [kind |-> "raise", exc |-> task.exc, router |-> NotBuilt]
    ELSE [kind |-> "return", exc |-> NoExc, router |-> Router(own.adapter, task.adapter, Truthy(task.adapter))]

\* a variant in which the outcome of the "task" resolution sets include_in_schema
IriRouter__init__task_decides(own, task_router_adapter, task) ==
    IF own.kind = "raise"
    THEN [kind |-> "raise", exc |-> own.exc, router |-> NotBuilt]
    ELSE IF task_router_adapter = NoneName
    THEN [kind |-> "return", exc |-> NoExc, router |-> Router(own.adapter, NoAdapter, Truthy(own.adapter))]
    ELSE IF task.kind = "raise"
    THEN [kind |-> "raise", exc |-> task.exc, router |-> NotBuilt]
    ELSE [kind |-> "return", exc |-> NoExc, router |-> Router(own.adapter, task.adapter, Truthy(task.adapter))]

\* IriRouter.__init__ over the outcomes own and task of its two create_adapter calls;
\* task is consulted only when task_router_adapter is given and the first call returned
IriRouter__init__(own, task_router_adapter, task) ==
    IF own.kind = "raise"
    THEN [kind |-> "raise", exc |-> own.exc, router |-> NotBuilt]
    ELSE IF task_router_adapter = NoneName
    THEN [kind |-> "return", exc |-> NoExc, router |-> Router(own.adapter, NoAdapter, Truthy(own.adapter))]
    ELSE IF task.kind = "raise"
    THEN [kind |-> "raise", exc |-> task.exc, router |-> NotBuilt]
    ELSE [kind |-> "return", exc |-> NoExc,
          router |-> Router(own.adapter, task.adapter, Truthy(own.adapter) /\ Truthy(task.adapter))]

\* bookkeeping of one create_adapter call: calls per group, implementations instantiated
Count(res, router_name) == [res EXCEPT ![router_name] = @ + 1]

Instantiated(c, router_adapter, outcome) ==
    IF outcome.instantiated = "" THEN c ELSE c \cup {<<outcome.instantiated, router_adapter>>}

NextGroup == CHOOSE i \in 1..Len(RouterOrder) : ~routers[RouterOrder[i]].built /\ \A j \in 1..(i-1) : routers[RouterOrder[j]].built

\* importing a router module constructs its route group (main.py imports them in RouterOrder)
ConstructRouter ==
    /\ pc = "startup"
    /\ \E i \in 1..Len(RouterOrder) : ~routers[RouterOrder[i]].built
    /\ LET router_name == RouterOrder[NextGroup] IN
       \E task_router_adapter \in TaskRouterAdapters(router_name) :
       \E e1 \in EnvWhenRead(env, router_name) :
         LET own == create_adapter(e1, router_name, router_name, resolutions[router_name] + 1)
             res1 == Count(resolutions, router_name)
             c1 == Instantiated(created, router_name, own)
             wantsTask == own.kind = "return" /\ task_router_adapter # NoneName
         IN  \E e2 \in (IF wantsTask THEN EnvWhenRead(e1, "task") ELSE {e1}) :
               LET task == create_adapter(e2, "task", task_router_adapter, res1["task"] + 1)
                   out == IriRouter__init__(own, task_router_adapter, task)
               IN  /\ env' = e2
                   /\ resolutions' = (IF wantsTask THEN Count(res1, "task") ELSE res1)
                   /\ created' = (IF wantsTask THEN Instantiated(c1, task_router_adapter, task) ELSE c1)
                   /\ routers' = [routers EXCEPT ![router_name] = out.router]
                   /\ pc' = (IF out.kind = "raise" THEN "crashed" ELSE "startup")
                   /\ probe' = [op |-> "IriRouter", router_name |-> router_name,
                                router_adapter |-> router_name, task_router_adapter |-> task_router_adapter,
                                own |-> own, task |-> (IF wantsTask THEN task ELSE Returned(NoAdapter, "")),
                                asked_task |-> wantsTask, kind |-> out.kind, exc |-> out.exc]
                   /\ UNCHANGED <<appRoutes, lastTask, discovery, request, query, invocations>>

----------------------------------------------------------------------------
(* The application: main.py *)

\* config.API_PREFIX + config.API_URL with the defaults "/" and "api/v1"
api_prefix == "/api/v1"

RouterPrefix(router_name) == "/" \o router_name

\* a registration made by a @router.<method> decorator: path, method, handler name, and
\* the include_in_schema argument of the decorator
Registration(path, method, name, in_schema) ==
    [path |-> path, method |-> method, name |-> name, include_in_schema |-> in_schema]

\* the registrations of the filesystem group (app/routers/filesystem), one per kind
FilesystemRegistrations ==
    <<Registration("/ls/{resource_id:str}", "GET", "get_ls", TRUE),
      Registration("/mkdir/{resource_id:str}", "POST", "post_mkdir", TRUE)>>

\* the registrations of each group, in decorator order (a selection for the larger groups)
Registrations(router_name) ==
    CASE router_name = "facility" ->
           <<Registration("", "GET", "get_facility", TRUE),
             Registration("/sites", "GET", "list_sites", TRUE)>>
      [] router_name = "status" ->
           <<Registration("/resources", "GET", "get_resources", TRUE),
             Registration("/incidents", "GET", "get_incidents", TRUE)>>
      [] router_name = "account" ->
           <<Registration("/capabilities", "GET", "get_capabilities", TRUE),
             Registration("/projects", "GET", "get_projects", TRUE)>>
      [] router_name = "compute" ->
           <<Registration("/job/{resource_id:str}", "POST", "submit_job", TRUE),
             Registration("/cancel/{resource_id:str}/{job_id:str}", "DELETE", "cancel_job", TRUE)>>
      [] router_name = "filesystem" -> FilesystemRegistrations
      [] router_name = "task" ->
           <<Registration("/{task_id:str}", "GET", "get_task", TRUE),
             Registration("/", "GET", "get_tasks", FALSE),
             Registration("", "GET", "get_tasks", TRUE),
             Registration("/{task_id:str}", "DELETE", "delete_task", TRUE)>>

\* a route of the application: path is <<mount prefix, group prefix, route path>>
Route(kind, path, method, name, in_schema, group) ==
    [kind |-> kind, path |-> path, methods |-> <<method>>, name |-> name,
     include_in_schema |-> in_schema, group |-> group]

\* the routes FastAPI(**config.API_CONFIG) starts with (docs_url is "/"): plain routes
FrameworkRoutes ==
    <<Route("Route", <<"/openapi.json">>, "GET", "openapi", FALSE, NoneName),
      Route("Route", <<"/">>, "GET", "swagger_ui_html", FALSE, NoneName),
      Route("Route", <<"/docs/oauth2-redirect">>, "GET", "swagger_ui_redirect", FALSE, NoneName),
      Route("Route", <<"/redoc">>, "GET", "redoc_html", FALSE, NoneName)>>

\* @APP.get(api_prefix)
DiscoveryRoute == Route("APIRoute", <<api_prefix>>, "GET", "api_discovery", TRUE, NoneName)

\* APP.include_router(router, prefix=api_prefix): every registration of the group becomes a
\* route of the application; a route is in the schema only if the registration and the group are
include_router(router_name, router) ==
    [i \in 1..Len(Registrations(router_name)) |->
        LET reg == Registrations(router_name)[i]
        IN  Route("APIRoute", <<api_prefix, RouterPrefix(router_name), reg.path>>, reg.method, reg.name,
                  reg.include_in_schema /\ router.include_in_schema, router_name)]

RECURSIVE IncludeAll(_, _)
IncludeAll(rs, i) ==
    IF i > Len(RouterOrder) THEN <<>>
    ELSE include_router(RouterOrder[i], rs[RouterOrder[i]]) \o IncludeAll(rs, i + 1)

\* route.path.startswith("/docs") or route.path.startswith("/openapi")
IsDocsPath(path) == path[1] \in {"/docs/oauth2-redirect", "/openapi.json"}

\* the items api_discovery appends for one route
RouteItems(route) ==
    IF route.kind # "APIRoute" \/ IsDocsPath(route.path) THEN <<>>
    ELSE SelectSeq([i \in 1..Len(route.methods) |->
                      [id |-> route.name, method |-> route.methods[i], path |-> route.path]],
                   LAMBDA item : item.method \notin {"HEAD", "OPTIONS"})

RECURSIVE api_discovery(_)
api_discovery(routes) ==
    IF routes = <<>> THEN <<>> ELSE RouteItems(Head(routes)) \o api_discovery(Tail(routes))

\* the body of main.py after its imports: the application, the discovery route, the routers
Mount ==
    /\ pc = "startup"
    /\ \A g \in Groups : routers[g].built
    /\ appRoutes' = FrameworkRoutes \o <<DiscoveryRoute>> \o IncludeAll(routers, 1)
    /\ pc' = "serving"
    /\ UNCHANGED <<env, routers, resolutions, created, lastTask, discovery, probe, request, query, invocations>>

NoDiscovery == [called |-> FALSE, items |-> <<>>]

\* a request for the discovery endpoint
Discover ==
    /\ pc = "serving"
    /\ discovery' = [called |-> TRUE, items |-> api_discovery(appRoutes)]
    /\ UNCHANGED <<env, pc, routers, appRoutes, resolutions, created, lastTask, probe, request, query, invocations>>

----------------------------------------------------------------------------
(* Task Dispatcher: FacilityAdapter.on_task (app/routers/task/facility_adapter.py) *)

\* TaskStatus
TaskStatus == {"pending", "active", "completed", "failed", "canceled"}

\* commands whose branch validates task.args["request_model"] into a request model
RequestModelCommands == {"chmod", "chown", "mkdir", "symlink", "compress", "extract", "mv", "cp"}

\* commands whose branch passes **task.args and serializes the returned model
KeywordCommands == {"file", "stat", "ls", "head", "view", "tail", "checksum", "rm"}

FilesystemCommands == RequestModelCommands \cup KeywordCommands \cup {"download", "upload"}

\* a variant whose "head" and "tail" branches await each other's operation
AdapterOperation_swapped(command) ==
    IF command = "head" THEN "tail" ELSE IF command = "tail" THEN "head" ELSE command

\* the adapter operation each branch of the if-chain awaits
AdapterOperation(command) ==
    CASE command = "chmod" -> "chmod"
      [] command = "chown" -> "chown"
      [] command = "file" -> "file"
      [] command = "stat" -> "stat"
      [] command = "mkdir" -> "mkdir"
      [] command = "symlink" -> "symlink"
      [] command = "ls" -> "ls"
      [] command = "head" -> "head"
      [] command = "view" -> "view"
      [] command = "tail" -> "tail"
      [] command = "checksum" -> "checksum"
      [] command = "rm" -> "rm"
      [] command = "compress" -> "compress"
      [] command = "extract" -> "extract"
      [] command = "mv" -> "mv"
      [] command = "cp" -> "cp"
      [] command = "download" -> "download"
      [] command = "upload" -> "upload"

\* Python values an adapter operation returns: a response model, a string, None
Model(payload) == [type |-> "model", s |-> <<payload>>]

Str(tokens) == [type |-> "str", s |-> tokens]

PyNone == [type |-> "none", s |-> <<>>]

\* Python truthiness of r: None and the empty string are false
IsTrue(r) == r.type = "model" \/ (r.type = "str" /\ r.s # <<>>)

\* o.model_dump_json() of a response model
model_dump_json(o) == Str(<<"{">> \o o.s \o <<"}">>)

\* what the body of the try block produces: a value for r or an exception, and the
\* adapter operations it invoked
Value(r, calls) == [kind |-> "value", r |-> r, msg |-> <<>>, calls |-> calls]

Exc(msg, calls) == [kind |-> "exc", r |-> PyNone, msg |-> msg, calls |-> calls]

NoneTypeHasNo(attr) == <<"'NoneType' object has no attribute ", attr>>

\* o = await fs_adapter.<op>(...) followed by the branch's serialization of o
Await(command, outcome) ==
    LET calls == <<AdapterOperation(command)>>
    IN  IF outcome.kind = "raise" THEN Exc(outcome.msg, calls)
        ELSE IF command = "download" THEN Value(outcome.value, calls)
        ELSE IF command = "upload" THEN Value(Str(<<"File uploaded successfully">>), calls)
        ELSE IF outcome.value.type # "model" THEN Exc(NoneTypeHasNo("model_dump_json"), calls)
        ELSE Value(model_dump_json(outcome.value), calls)

\* one branch of the if-chain, with fs_adapter already resolved
Branch(fs_adapter, task, outcome) ==
    IF task.command \in RequestModelCommands
    THEN IF task.args.request_model = "absent" THEN Exc(<<"'request_model'">>, <<>>)
         ELSE IF task.args.request_model = "invalid"
         THEN Exc(<<"validation error for request model of ", task.command>>, <<>>)
         ELSE IF ~Truthy(fs_adapter) THEN Exc(NoneTypeHasNo(AdapterOperation(task.command)), <<>>)
         ELSE Await(task.command, outcome)
    ELSE IF task.command \in FilesystemCommands
    THEN IF ~Truthy(fs_adapter) THEN Exc(NoneTypeHasNo(AdapterOperation(task.command)), <<>>)
         ELSE IF ~task.args.keywords_bind
         THEN Exc(<<AdapterOperation(task.command), "() got an unexpected keyword argument">>, <<>>)
         ELSE Await(task.command, outcome)
    ELSE Value(PyNone, <<>>)

NotResolved == [kind |-> "none", adapter |-> NoAdapter, exc |-> NoExc, instantiated |-> ""]

\* a variant that runs the chain of commands whatever the router is
TryBlock_any_router(resolution, task, outcome) ==
    IF resolution.kind = "raise" THEN Exc(resolution.exc, <<>>)
    ELSE Branch(resolution.adapter, task, outcome)

\* the try block of on_task
TryBlock(resolution, task, outcome) ==
    IF task.router = "filesystem"
    THEN IF resolution.kind = "raise" THEN Exc(resolution.exc, <<>>)
         ELSE Branch(resolution.adapter, task, outcome)
    ELSE Value(PyNone, <<>>)

\* a variant that leaves the command out of the message
UnknownText_router_only(task) == <<"Task was cancelled due to unknown router/command: ", task.router>>

UnknownText(task) == <<"Task was cancelled due to unknown router/command: ", task.router, ":", task.command>>

\* a variant whose handler lets the exception go on to the caller
Outcome_reraise(task, body) ==
    IF body.kind = "exc" THEN [returned |-> FALSE, text |-> <<>>, status |-> "failed"]
    ELSE IF IsTrue(body.r) THEN [returned |-> TRUE, text |-> body.r.s, status |-> "completed"]
    ELSE [returned |-> TRUE, text |-> UnknownText(task), status |-> "failed"]

\* a variant that reports the "cancelled" task as canceled
Outcome_canceled(task, body) ==
    IF body.kind = "exc" THEN [returned |-> TRUE, text |-> <<"Error: ">> \o body.msg, status |-> "failed"]
    ELSE IF IsTrue(body.r) THEN [returned |-> TRUE, text |-> body.r.s, status |-> "completed"]
    ELSE [returned |-> TRUE, text |-> UnknownText(task), status |-> "canceled"]

\* the end of on_task: the except clause and the test of r
Outcome(task, body) ==
    IF body.kind = "exc" THEN [returned |-> TRUE, text |-> <<"Error: ">> \o body.msg, status |-> "failed"]
    ELSE IF IsTrue(body.r) THEN [returned |-> TRUE, text |-> body.r.s, status |-> "completed"]
    ELSE [returned |-> TRUE, text |-> UnknownText(task), status |-> "failed"]

\* on_task: the pair returned (or the exception that escaped), with what the call did
on_task(e, task, outcome, serial) ==
    LET resolution == IF task.router = "filesystem"
                      THEN create_adapter(e, task.router, "filesystem", serial)
                      ELSE NotResolved
        body == TryBlock(resolution, task, outcome)
        result == Outcome(task, body)
    IN  [returned |-> result.returned, text |-> result.text, status |-> result.status,
         resolution |-> resolution, body |-> body]

\* task.args as far as the dispatcher looks at it: the "request_model" entry, and whether
\* the mapping binds as keyword arguments of the operation (a mapping with a
\* "request_model" entry does not)
TaskArgs == {[request_model |-> "absent", keywords_bind |-> TRUE],
             [request_model |-> "absent", keywords_bind |-> FALSE],
             [request_model |-> "invalid", keywords_bind |-> FALSE],
             [request_model |-> "valid", keywords_bind |-> FALSE]}

TaskRouters == {"filesystem", "bogus"}

TaskCommands == FilesystemCommands \cup {"x"}

TaskCommand == [router : TaskRouters, command : TaskCommands, args : TaskArgs]

\* the tasks dispatched inside the API server process: one per kind of branch
ServerTasks == {t \in TaskCommand : /\ t.command \in {"mkdir", "download", "x"}
                                    /\ t.args.request_model = "valid" <=> t.command = "mkdir"
                                    /\ t.args.keywords_bind <=> t.command = "download"}

\* messages of the exceptions an adapter operation raises (str(exc) may be empty)
AdapterErrors == {<<"Permission denied">>, <<>>}

NotInvoked == [kind |-> "none", msg |-> <<>>, value |-> PyNone]

Raises(msg) == [kind |-> "raise", msg |-> msg, value |-> PyNone]

Returns(value) == [kind |-> "return", msg |-> <<>>, value |-> value]

\* what the adapter operation of a command may do when it is invoked: raise, or return
\* what the branch expects of it (a response model; for download the content, which may
\* be empty or None; for upload nothing)
Outcomes(command) ==
    {Raises(msg) : msg \in AdapterErrors} \cup
    (IF command = "download" THEN {Returns(Str(<<"file content">>)), Returns(Str(<<>>)), Returns(PyNone)}
     ELSE IF command = "upload" THEN {Returns(PyNone)}
     ELSE {Returns(Model("response"))})

\* the adapter's behaviour matters only to a call that reaches the adapter
OutcomesOf(e, task) ==
    IF on_task(e, task, NotInvoked, 1).body.calls = <<>> THEN {NotInvoked} ELSE Outcomes(task.command)

NoTask == [called |-> FALSE]

\* the queue consumer hands one task to on_task
OnTask ==
    /\ pc \in {"worker", "serving"}
    /\ \E task \in (IF pc = "worker" THEN TaskCommand ELSE ServerTasks) :
       \E e \in (IF task.router = "filesystem" THEN EnvWhenRead(env, "filesystem") ELSE {env}) :
       \E outcome \in OutcomesOf(e, task) :
         LET out == on_task(e, task, outcome, resolutions["filesystem"] + 1)
             resolved == out.resolution.kind # "none"
         IN  /\ resolved => resolutions["filesystem"] < MaxResolutions
             /\ env' = e
             /\ resolutions' = (IF resolved THEN Count(resolutions, "filesystem") ELSE resolutions)
             /\ created' = (IF resolved THEN Instantiated(created, "filesystem", out.resolution) ELSE created)
             /\ lastTask' = [called |-> TRUE, task |-> task, outcome |-> outcome,
                             returned |-> out.returned, text |-> out.text, status |-> out.status,
                             resolution |-> out.resolution, body |-> out.body]
             /\ UNCHANGED <<pc, routers, appRoutes, discovery, probe, request, query, invocations>>

----------------------------------------------------------------------------
(* The API server process: start-up, then requests and dispatched tasks *)

NoProbe == [op |-> "none"]

\* no request has been received
NoRequest == [op |-> "none"]

\* no collection has been queried
NoQuery == [op |-> "none"]

\* no on_task call is in progress
NoInvocations == <<>>

Start(role) ==
    /\ env = [k \in EnvKeys |-> Unread]
    /\ pc = role
    /\ routers = [g \in Groups |-> NotBuilt]
    /\ appRoutes = <<>>
    /\ resolutions = [g \in Groups |-> 0]
    /\ created = {}
    /\ lastTask = NoTask
    /\ discovery = NoDiscovery
    /\ probe = NoProbe
    /\ request = NoRequest
    /\ query = NoQuery
    /\ invocations = NoInvocations

Init == Start("startup")

Next == ConstructRouter \/ Mount \/ Discover \/ OnTask

Spec == Init /\ [][Next]_vars

----------------------------------------------------------------------------
(* The queue worker process: it only runs on_task *)

InitWorker == Start("worker")

NextWorker == OnTask

SpecWorker == InitWorker /\ [][NextWorker]_vars

----------------------------------------------------------------------------
(* create_adapter as a function of the configuration *)

InitResolve ==
    /\ \E g \in Groups : \E v \in AdapterValues : \E f \in FlagValues :
         env = [k \in EnvKeys |-> IF k = EnvKey(g) THEN v ELSE IF k = ShowMissingKey THEN f ELSE Unset]
    /\ pc = "resolve"
    /\ routers = [g \in Groups |-> NotBuilt]
    /\ appRoutes = <<>>
    /\ resolutions = [g \in Groups |-> 0]
    /\ created = {}
    /\ lastTask = NoTask
    /\ discovery = NoDiscovery
    /\ probe = NoProbe
    /\ request = NoRequest
    /\ query = NoQuery
    /\ invocations = NoInvocations

\* one call create_adapter(router_name, router_adapter)
Resolve ==
    /\ pc = "resolve"
    /\ \E router_name \in Groups : \E router_adapter \in Capabilities :
         probe' = [op |-> "create_adapter", router_name |-> router_name, router_adapter |-> router_adapter,
                   adapter_name |-> _get_adapter_name(env, router_name),
                   out |-> create_adapter(env, router_name, router_adapter, 1)]
    /\ UNCHANGED <<env, pc, routers, appRoutes, resolutions, created, lastTask, discovery, request, query, invocations>>

NextResolve == Resolve

SpecResolve == InitResolve /\ [][NextResolve]_vars

----------------------------------------------------------------------------
(* Auth Gate: get_client_ip, IriRouter.current_user *)

\* longest header value, in tokens
MaxHeaderLen == 3

\* a header value is a string of tokens: blanks, commas and addresses
HeaderTokens == {" ", ",", "10.0.0.1", "10.0.0.2"}

\* request.headers.get(name): None, or the value of the header
NoHeader == [present |-> FALSE, s |-> <<>>]

Header(s) == [present |-> TRUE, s |-> s]

\* truth value of what headers.get returned: None and "" are false
HeaderGiven(h) == h.present /\ h.s # <<>>

RECURSIVE split(_, _)
\* s.split(sep)
split(s, sep) ==
    IF \E i \in 1..Len(s) : s[i] = sep
    THEN LET i == CHOOSE k \in 1..Len(s) : s[k] = sep /\ \A j \in 1..(k - 1) : s[j] # sep
         IN  <<SubSeq(s, 1, i - 1)>> \o split(SubSeq(s, i + 1, Len(s)), sep)
    ELSE <<s>>

\* s.strip()
strip(s) ==
    LET kept == {i \in 1..Len(s) : s[i] # " "}
    IN  IF kept = {} THEN <<>>
        ELSE SubSeq(s, CHOOSE i \in kept : \A j \in kept : i <= j, CHOOSE i \in kept : \A j \in kept : j <= i)

\* a variant that prefers the real-ip headers to X-Forwarded-For
get_client_ip_real_ip_first(req) ==
    IF HeaderGiven(req.headers["http_x_real_ip"]) THEN req.headers["http_x_real_ip"].s
    ELSE IF HeaderGiven(req.headers["x-real-ip"]) THEN req.headers["x-real-ip"].s
    ELSE IF HeaderGiven(req.headers["x-forwarded-for"])
    THEN strip(split(req.headers["x-forwarded-for"].s, ",")[1])
    ELSE req.client_host

\* get_client_ip(request); header names are matched without regard to case
get_client_ip(req) ==
    IF HeaderGiven(req.headers["x-forwarded-for"])
    THEN strip(split(req.headers["x-forwarded-for"].s, ",")[1])
    ELSE IF HeaderGiven(req.headers["http_x_real_ip"]) THEN req.headers["http_x_real_ip"].s
    ELSE IF HeaderGiven(req.headers["x-real-ip"]) THEN req.headers["x-real-ip"].s
    ELSE req.client_host

\* an attribute request.state does not have
NoAttribute == [type |-> "absent", s |-> <<>>]

\* request.state of a request no dependency has touched
FreshState == [current_user_id |-> NoAttribute, api_key |-> NoAttribute]

Unauthorized == [kind |-> "raise", status_code |-> 401, detail |-> "Invalid or malformed Authorization parameters"]

Forbidden == [kind |-> "raise", status_code |-> 403, detail |-> "Unauthorized access"]

Passed == [kind |-> "return", status_code |-> 0, detail |-> ""]

\* self.adapter.get_current_user(api_key, client_ip): an absent adapter has no such
\* attribute; a present one does what behaviour says
get_current_user(adapter_present, behaviour) ==
    IF ~adapter_present THEN Raises(NoneTypeHasNo("get_current_user")) ELSE behaviour

\* a variant that stores the credential before it decodes it
current_user_stores_first(req, api_key, adapter_present, behaviour) ==
    LET got == get_current_user(adapter_present, behaviour)
        calls == IF adapter_present THEN <<[api_key |-> api_key, client_ip |-> get_client_ip(req)]>> ELSE <<>>
        stored == [req.state EXCEPT !.api_key = Str(api_key)]
    IN  IF got.kind = "raise" THEN [outcome |-> Unauthorized, state |-> stored, calls |-> calls]
        ELSE IF ~IsTrue(got.value) THEN [outcome |-> Forbidden, state |-> stored, calls |-> calls]
        ELSE [outcome |-> Passed, calls |-> calls,
              state |-> [current_user_id |-> got.value, api_key |-> Str(api_key)]]

\* a variant that answers every failure with 403
current_user_forbids(req, api_key, adapter_present, behaviour) ==
    LET got == get_current_user(adapter_present, behaviour)
        calls == IF adapter_present THEN <<[api_key |-> api_key, client_ip |-> get_client_ip(req)]>> ELSE <<>>
    IN  IF got.kind = "raise" THEN [outcome |-> Forbidden, state |-> req.state, calls |-> calls]
        ELSE IF ~IsTrue(got.value) THEN [outcome |-> Forbidden, state |-> req.state, calls |-> calls]
        ELSE [outcome |-> Passed, calls |-> calls,
              state |-> [current_user_id |-> got.value, api_key |-> Str(api_key)]]

\* IriRouter.current_user: the exception raised or the return, request.state afterwards,
\* and the calls made to the adapter
current_user(req, api_key, adapter_present, behaviour) ==
    LET got == get_current_user(adapter_present, behaviour)
        calls == IF adapter_present THEN <<[api_key |-> api_key, client_ip |-> get_client_ip(req)]>> ELSE <<>>
    IN  IF got.kind = "raise" THEN [outcome |-> Unauthorized, state |-> req.state, calls |-> calls]
        ELSE IF ~IsTrue(got.value) THEN [outcome |-> Forbidden, state |-> req.state, calls |-> calls]
        ELSE [outcome |-> Passed, calls |-> calls,
              state |-> [current_user_id |-> got.value, api_key |-> Str(api_key)]]

\* header values of up to MaxHeaderLen tokens
HeaderValues == UNION {[1..n -> HeaderTokens] : n \in 0..MaxHeaderLen}

XForwardedFor == {NoHeader} \cup {Header(s) : s \in HeaderValues}

RealIp(address) == {NoHeader, Header(<<>>), Header(<<address>>)}

PeerAddresses == {<<"10.0.0.9">>}

ApiKeys == {<<"Bearer ", "key-1">>, <<"key-2">>}

\* what an adapter's get_current_user may do: raise, or return a user id that may be
\* None or empty
Decodings == {Raises(<<"bad token">>), Returns(PyNone), Returns(Str(<<>>)), Returns(Str(<<"alice">>))}

\* a request that has reached a route guarded by current_user, and the adapter behind it
Requests ==
    {[op |-> "received",
      headers |-> [h \in {"x-forwarded-for", "http_x_real_ip", "x-real-ip"} |->
                     IF h = "x-forwarded-for" THEN xff ELSE IF h = "http_x_real_ip" THEN hri ELSE xri],
      client_host |-> peer, api_key |-> key, adapter_present |-> present, behaviour |-> b,
      state |-> FreshState, outcome |-> Passed, calls |-> <<>>, client_ip |-> <<>>] :
        xff \in XForwardedFor, hri \in RealIp("10.0.0.3"), xri \in RealIp("10.0.0.4"),
        peer \in PeerAddresses, key \in ApiKeys, present \in {TRUE},
        b \in Decodings}
    \cup
    {[op |-> "received",
      headers |-> [h \in {"x-forwarded-for", "http_x_real_ip", "x-real-ip"} |-> NoHeader],
      client_host |-> peer, api_key |-> key, adapter_present |-> FALSE, behaviour |-> NotInvoked,
      state |-> FreshState, outcome |-> Passed, calls |-> <<>>, client_ip |-> <<>>] :
        peer \in PeerAddresses, key \in ApiKeys}

InitAuth ==
    /\ env = [k \in EnvKeys |-> Unread]
    /\ pc = "auth"
    /\ routers = [g \in Groups |-> NotBuilt]
    /\ appRoutes = <<>>
    /\ resolutions = [g \in Groups |-> 0]
    /\ created = {}
    /\ lastTask = NoTask
    /\ discovery = NoDiscovery
    /\ probe = NoProbe
    /\ request \in Requests
    /\ query = NoQuery
    /\ invocations = NoInvocations

\* the dependency current_user runs on the request
CurrentUser ==
    /\ pc = "auth"
    /\ request.op = "received"
    /\ LET out == current_user(request, request.api_key, request.adapter_present, request.behaviour)
       IN  request' = [request EXCEPT !.op = "current_user", !.outcome = out.outcome,
                                      !.state = out.state, !.calls = out.calls]
    /\ UNCHANGED <<env, pc, routers, appRoutes, resolutions, created, lastTask, discovery, probe, query, invocations>>

\* a handler asks for the client address of the request
GetClientIp ==
    /\ pc = "auth"
    /\ request.op = "received"
    /\ request' = [request EXCEPT !.op = "get_client_ip", !.client_ip = get_client_ip(request)]
    /\ UNCHANGED <<env, pc, routers, appRoutes, resolutions, created, lastTask, discovery, probe, query, invocations>>

NextAuth == CurrentUser \/ GetClientIp

SpecAuth == InitAuth /\ [][NextAuth]_vars

----------------------------------------------------------------------------
(* Filter Engine: NamedObject.find, Resource.find, Event.find, Incident.find *)

\* longest collection handed to a find
MaxItems == 2

\* most predicates supplied to one find
MaxPredicates == 2

\* a datetime: its wall-clock reading, whether it carries a UTC offset (tzinfo), and the offset
DateTime(wall, aware, offset) == [type |-> "datetime", wall |-> wall, aware |-> aware, offset |-> offset]

\* None where a datetime may be
NoDate == [type |-> "none", wall |-> 0, aware |-> FALSE, offset |-> 0]

Utc(wall) == DateTime(wall, TRUE, 0)

Naive(wall) == DateTime(wall, FALSE, 0)

\* Python orders two datetimes only when both are naive or both are aware; None is
\* ordered with nothing
Ordered(a, b) == a.type = "datetime" /\ b.type = "datetime" /\ a.aware = b.aware

\* what an ordered pair is compared by: the instant of an aware datetime, the
\* wall-clock reading of a naive one
Key(d) == IF d.aware THEN d.wall - d.offset ELSE d.wall

\* a == b on datetimes: a naive and an aware one are unequal, and so are None and a datetime
Eq(a, b) == Ordered(a, b) /\ Key(a) = Key(b)

\* dt.replace(tzinfo=datetime.timezone.utc) for a naive dt
normalize(dt) == IF ~dt.aware THEN [dt EXCEPT !.aware = TRUE, !.offset = 0] ELSE dt

\* truth value of a find argument: None and "" are false, every datetime is true
Given(arg) == arg.type = "datetime" \/ IsTrue(arg)

\* sub in s, for strings
InStr(sub, s) == \E i \in 0..(Len(s) - Len(sub)) : SubSeq(s, i + 1, i + Len(sub)) = sub

\* the outcome of a find: the list returned, or the TypeError raised, and the filter
\* arguments whose comprehension ran, in the order they ran
Returning(items, steps) == [kind |-> "return", items |-> items, exc |-> <<>>, steps |-> steps]

Found(items) == Returning(items, <<>>)

TypeError(steps) == [kind |-> "raise", items |-> <<>>, exc |-> <<"TypeError">>, steps |-> steps]

\* the elements of the list a step is handed
Elements(r) == {r.items[i] : i \in 1..Len(r.items)}

\* [e for e in r if test(e)], the step of the filter argument arg, run when arg is
\* given: raises holds the elements the test raises on, keeps the elements it is true of
Comprehension(arg, given, r, raises, keeps) ==
    IF r.kind = "raise" \/ ~given THEN r
    ELSE IF Elements(r) \cap raises # {} THEN TypeError(Append(r.steps, arg))
    ELSE Returning(SelectSeq(r.items, LAMBDA e : e \in keeps), Append(r.steps, arg))

\* a variant that compares the name even when no name is given
NamedObject_find_always_names(a, name, description, modified_since) ==
    LET byName == Comprehension("name", TRUE, Found(a), {}, {aa \in Elements(Found(a)) : aa.name = name})
        byDescription == Comprehension("description", Given(description), byName,
                                       {aa \in Elements(byName) : aa.description.type = "none"},
                                       {aa \in Elements(byName) : InStr(description.s, aa.description.s)})
    IN  Comprehension("modified_since", Given(modified_since), byDescription, {},
                      {aa \in Elements(byDescription) :
                         Key(normalize(aa.last_modified)) >= Key(normalize(modified_since))})

\* NamedObject.find(a, name, description, modified_since)
NamedObject_find(a, name, description, modified_since) ==
    LET byName == Comprehension("name", Given(name), Found(a), {}, {aa \in Elements(Found(a)) : aa.name = name})
        byDescription == Comprehension("description", Given(description), byName,
                                       {aa \in Elements(byName) : aa.description.type = "none"},
                                       {aa \in Elements(byName) : InStr(description.s, aa.description.s)})
    IN  Comprehension("modified_since", Given(modified_since), byDescription, {},
                      {aa \in Elements(byDescription) :
                         Key(normalize(aa.last_modified)) >= Key(normalize(modified_since))})

\* Resource.find(resources, name, description, group, modified_since, resource_type)
Resource_find(resources, name, description, group, modified_since, resource_type) ==
    LET a == NamedObject_find(resources, name, description, modified_since)
        byGroup == Comprehension("group", Given(group), a, {}, {aa \in Elements(a) : aa.group = group})
    IN  Comprehension("resource_type", Given(resource_type), byGroup, {},
                      {aa \in Elements(byGroup) : aa.resource_type = resource_type})

\* Event.find(events, resource_id, name, description, status, from_, to, time_, modified_since)
Event_find(events, resource_id, name, description, status, from_, to, time_, modified_since) ==
    LET named == NamedObject_find(events, name, description, modified_since)
        byResource == Comprehension("resource_id", Given(resource_id), named, {},
                                    {e \in Elements(named) : e.resource_id = resource_id})
        byStatus == Comprehension("status", Given(status), byResource, {}, {e \in Elements(byResource) : e.status = status})
        byFrom == Comprehension("from_", Given(from_), byStatus,
                                {e \in Elements(byStatus) : ~Ordered(e.occurred_at, from_)},
                                {e \in Elements(byStatus) : Key(e.occurred_at) >= Key(from_)})
        byTo == Comprehension("to", Given(to), byFrom,
                              {e \in Elements(byFrom) : ~Ordered(e.occurred_at, to)},
                              {e \in Elements(byFrom) : Key(e.occurred_at) < Key(to)})
    IN  Comprehension("time_", Given(time_), byTo, {}, {e \in Elements(byTo) : Eq(e.occurred_at, time_)})

\* a variant that tests the resource membership last
Incident_find_resource_last(incidents, name, description, status, type_, from_, to, time_, modified_since, resource_id) ==
    LET named == NamedObject_find(incidents, name, description, modified_since)
        byStatus == Comprehension("status", Given(status), named, {}, {e \in Elements(named) : e.status = status})
        byType == Comprehension("type_", Given(type_), byStatus, {}, {e \in Elements(byStatus) : e.type = type_})
        byFrom == Comprehension("from_", Given(from_), byType,
                                {e \in Elements(byType) : ~Ordered(e.start, from_)},
                                {e \in Elements(byType) : Key(e.start) >= Key(from_)})
        byTo == Comprehension("to", Given(to), byFrom,
                              {e \in Elements(byFrom) : ~Ordered(e.end, to)},
                              {e \in Elements(byFrom) : Key(e.end) < Key(to)})
        byTime == Comprehension("time_", Given(time_), byTo,
                                {e \in Elements(byTo) : \/ ~Ordered(e.start, time_)
                                                        \/ (Key(e.start) <= Key(time_) /\ ~Ordered(e.end, time_))},
                                {e \in Elements(byTo) : Key(e.start) <= Key(time_) /\ Key(e.end) > Key(time_)})
    IN  Comprehension("resource_id", Given(resource_id), byTime, {},
                      {e \in Elements(byTime) : resource_id \in e.resource_ids})

\* Incident.find(incidents, name, description, status, type_, from_, to, time_,
\* modified_since, resource_id); in the time_ test, end is looked at only when
\* start <= time_ holds
Incident_find(incidents, name, description, status, type_, from_, to, time_, modified_since, resource_id) ==
    LET named == NamedObject_find(incidents, name, description, modified_since)
        byResource == Comprehension("resource_id", Given(resource_id), named, {},
                                    {e \in Elements(named) : resource_id \in e.resource_ids})
        byStatus == Comprehension("status", Given(status), byResource, {}, {e \in Elements(byResource) : e.status = status})
        byType == Comprehension("type_", Given(type_), byStatus, {}, {e \in Elements(byStatus) : e.type = type_})
        byFrom == Comprehension("from_", Given(from_), byType,
                                {e \in Elements(byType) : ~Ordered(e.start, from_)},
                                {e \in Elements(byType) : Key(e.start) >= Key(from_)})
        byTo == Comprehension("to", Given(to), byFrom,
                              {e \in Elements(byFrom) : ~Ordered(e.end, to)},
                              {e \in Elements(byFrom) : Key(e.end) < Key(to)})
    IN  Comprehension("time_", Given(time_), byTo,
                      {e \in Elements(byTo) : \/ ~Ordered(e.start, time_)
                                              \/ (Key(e.start) <= Key(time_) /\ ~Ordered(e.end, time_))},
                      {e \in Elements(byTo) : Key(e.start) <= Key(time_) /\ Key(e.end) > Key(time_)})

\* the entities of each kind that the collections are drawn from; a text is one
\* character per token
NamedObjects ==
    {[id |-> "n1", name |-> Str(<<"alpha">>), description |-> Str(<<"D", "o", "w", "n">>), last_modified |-> Utc(1)],
     [id |-> "n2", name |-> Str(<<"beta">>), description |-> Str(<<"d", "o", "w", "n">>), last_modified |-> Naive(2)],
     [id |-> "n3", name |-> PyNone, description |-> PyNone, last_modified |-> DateTime(3, TRUE, 1)]}

Resources ==
    {[id |-> "r1", name |-> Str(<<"alpha">>), description |-> Str(<<"D", "o", "w", "n">>), last_modified |-> Utc(1),
      group |-> Str(<<"g1">>), resource_type |-> Str(<<"compute">>)],
     [id |-> "r2", name |-> Str(<<"beta">>), description |-> Str(<<"d", "o", "w", "n">>), last_modified |-> Naive(2),
      group |-> PyNone, resource_type |-> Str(<<"storage">>)],
     [id |-> "r3", name |-> PyNone, description |-> PyNone, last_modified |-> DateTime(3, TRUE, 1),
      group |-> Str(<<"g1">>), resource_type |-> Str(<<"storage">>)]}

Events ==
    {[id |-> "e1", name |-> Str(<<"alpha">>), description |-> Str(<<"D", "o", "w", "n">>), last_modified |-> Utc(1),
      occurred_at |-> Utc(1), status |-> Str(<<"down">>), resource_id |-> Str(<<"r1">>)],
     [id |-> "e2", name |-> Str(<<"beta">>), description |-> Str(<<"d", "o", "w", "n">>), last_modified |-> Naive(2),
      occurred_at |-> Utc(2), status |-> Str(<<"up">>), resource_id |-> Str(<<"r1">>)],
     [id |-> "e3", name |-> PyNone, description |-> PyNone, last_modified |-> Utc(3),
      occurred_at |-> Naive(2), status |-> Str(<<"down">>), resource_id |-> Str(<<"r2">>)],
     [id |-> "e4", name |-> Str(<<"alpha">>), description |-> Str(<<"D", "o", "w", "n">>), last_modified |-> Utc(3),
      occurred_at |-> DateTime(4, TRUE, 1), status |-> Str(<<"up">>), resource_id |-> Str(<<"r2">>)]}

Incidents ==
    {[id |-> "i1", name |-> Str(<<"alpha">>), description |-> Str(<<"D", "o", "w", "n">>), last_modified |-> Utc(1),
      status |-> Str(<<"down">>), type |-> Str(<<"planned">>), start |-> Utc(1), end |-> Utc(2),
      resource_ids |-> {Str(<<"r1">>)}],
     [id |-> "i2", name |-> Str(<<"beta">>), description |-> Str(<<"d", "o", "w", "n">>), last_modified |-> Naive(2),
      status |-> Str(<<"up">>), type |-> Str(<<"unplanned">>), start |-> Utc(2), end |-> DateTime(4, TRUE, 1),
      resource_ids |-> {Str(<<"r1">>), Str(<<"r2">>)}],
     [id |-> "i3", name |-> PyNone, description |-> PyNone, last_modified |-> Utc(3),
      status |-> Str(<<"down">>), type |-> Str(<<"planned">>), start |-> Naive(1), end |-> Naive(3),
      resource_ids |-> {}],
     [id |-> "i4", name |-> Str(<<"alpha">>), description |-> Str(<<"D", "o", "w", "n">>), last_modified |-> Utc(3),
      status |-> Str(<<"up">>), type |-> Str(<<"planned">>), start |-> Utc(1), end |-> NoDate,
      resource_ids |-> {Str(<<"r2">>)}]}

Finds == {"NamedObject.find", "Resource.find", "Event.find", "Incident.find"}

\* the entities a find is handed a list of
Pool(op) ==
    CASE op = "NamedObject.find" -> NamedObjects
      [] op = "Resource.find" -> Resources
      [] op = "Event.find" -> Events
      [] op = "Incident.find" -> Incidents

\* lists of up to MaxItems entities
Collections(op) == UNION {[1..n -> Pool(op)] : n \in 0..MaxItems}

TimeParams == {"modified_since", "from_", "to", "time_"}

Params == {"name", "description", "group", "resource_type", "resource_id", "status", "type_"} \cup TimeParams

\* the filter arguments of each find
ParamsOf(op) ==
    CASE op = "NamedObject.find" -> {"name", "description", "modified_since"}
      [] op = "Resource.find" -> {"name", "description", "modified_since", "group", "resource_type"}
      [] op = "Event.find" -> {"name", "description", "modified_since", "resource_id", "status", "from_", "to", "time_"}
      [] op = "Incident.find" -> Params \ {"group", "resource_type"}

\* every filter argument left at its default, None
NoArgs == [p \in Params |-> IF p \in TimeParams THEN NoDate ELSE PyNone]

\* the values a filter argument is given
ArgValues(p) ==
    CASE p \in TimeParams -> {Utc(2), Naive(2)}
      [] p = "name" -> {Str(<<"alpha">>)}
      [] p = "description" -> {Str(<<"D", "o">>)}
      [] p = "group" -> {Str(<<"g1">>)}
      [] p = "resource_type" -> {Str(<<"compute">>)}
      [] p = "resource_id" -> {Str(<<"r1">>)}
      [] p = "status" -> {Str(<<"down">>)}
      [] p = "type_" -> {Str(<<"planned">>)}

NotApplied == [kind |-> "none", items |-> <<>>, exc |-> <<>>, steps |-> <<>>]

\* the arguments of the next call on a collection: none at first, then those of the
\* call before with one more argument given
NextArgs(q) ==
    IF ~q.applied THEN {q.args}
    ELSE IF Cardinality({p \in Params : Given(q.args[p])}) >= MaxPredicates THEN {}
    ELSE UNION {{[q.args EXCEPT ![p] = v] : v \in ArgValues(p)} :
                  p \in {x \in ParamsOf(q.op) : ~Given(q.args[x])}}

\* the call made, the result of the call before it, and the result of this one
Called(q, args, result) ==
    [q EXCEPT !.args = args, !.applied = TRUE, !.previous = q.result, !.result = result]

InitFilter ==
    /\ env = [k \in EnvKeys |-> Unread]
    /\ pc = "filter"
    /\ routers = [g \in Groups |-> NotBuilt]
    /\ appRoutes = <<>>
    /\ resolutions = [g \in Groups |-> 0]
    /\ created = {}
    /\ lastTask = NoTask
    /\ discovery = NoDiscovery
    /\ probe = NoProbe
    /\ request = NoRequest
    /\ \E op \in Finds : \E items \in Collections(op) :
         query = [op |-> op, items |-> items, args |-> NoArgs, applied |-> FALSE,
                  previous |-> NotApplied, result |-> NotApplied]
    /\ invocations = NoInvocations

FindNamedObjects ==
    /\ pc = "filter" /\ query.op = "NamedObject.find"
    /\ \E args \in NextArgs(query) :
         query' = Called(query, args, NamedObject_find(query.items, args["name"], args["description"],
                                                      args["modified_since"]))
    /\ UNCHANGED <<env, pc, routers, appRoutes, resolutions, created, lastTask, discovery, probe, request, invocations>>

FindResources ==
    /\ pc = "filter" /\ query.op = "Resource.find"
    /\ \E args \in NextArgs(query) :
         query' = Called(query, args, Resource_find(query.items, args["name"], args["description"], args["group"],
                                                   args["modified_since"], args["resource_type"]))
    /\ UNCHANGED <<env, pc, routers, appRoutes, resolutions, created, lastTask, discovery, probe, request, invocations>>

FindEvents ==
    /\ pc = "filter" /\ query.op = "Event.find"
    /\ \E args \in NextArgs(query) :
         query' = Called(query, args, Event_find(query.items, args["resource_id"], args["name"], args["description"],
                                                args["status"], args["from_"], args["to"], args["time_"],
                                                args["modified_since"]))
    /\ UNCHANGED <<env, pc, routers, appRoutes, resolutions, created, lastTask, discovery, probe, request, invocations>>

FindIncidents ==
    /\ pc = "filter" /\ query.op = "Incident.find"
    /\ \E args \in NextArgs(query) :
         query' = Called(query, args, Incident_find(query.items, args["name"], args["description"], args["status"],
                                                   args["type_"], args["from_"], args["to"], args["time_"],
                                                   args["modified_since"], args["resource_id"]))
    /\ UNCHANGED <<env, pc, routers, appRoutes, resolutions, created, lastTask, discovery, probe, request, invocations>>

NextFilter == FindNamedObjects \/ FindResources \/ FindEvents \/ FindIncidents

SpecFilter == InitFilter /\ [][NextFilter]_vars

----------------------------------------------------------------------------
(* Interleaved on_task calls.  on_task is a coroutine: it runs without interruption up to
   the await of the adapter operation, is suspended there while other calls run, and
   continues when the awaited operation has finished.  r, o and fs_adapter are locals of
   the call, so each call has a frame of its own. *)

MaxInvocations == 2

Idle == [pc |-> "idle"]

\* a call suspended at `await fs_adapter.<operation>(...)`
Suspended(task, serial, overlapped) ==
    [pc |-> "awaiting", task |-> task, serial |-> serial, overlapped |-> overlapped,
     o |-> NotInvoked, finished |-> NotInvoked]

\* a call that has returned its (text, status) pair
Done(frame, out) ==
    [pc |-> "done", task |-> frame.task, serial |-> frame.serial, overlapped |-> frame.overlapped,
     o |-> frame.o, finished |-> frame.finished, text |-> out.text, status |-> out.status,
     calls |-> out.body.calls]

\* the calls that are suspended, or ready to continue, at their await
InFlight(frames) == {j \in DOMAIN frames : frames[j].pc \in {"awaiting", "ready"}}

Overlap(frames, others) ==
    [j \in DOMAIN frames |-> IF j \in others THEN [frames[j] EXCEPT !.overlapped = TRUE] ELSE frames[j]]

\* a variant that keeps the awaited outcome in one place shared by all calls
Deliver_shared(frames, i, outcome) ==
    [j \in DOMAIN frames |->
        IF j = i THEN [frames[j] EXCEPT !.pc = "ready", !.o = outcome]
        ELSE IF j \in InFlight(frames) THEN [frames[j] EXCEPT !.o = outcome]
        ELSE frames[j]]

\* the awaited operation of call i finishes: its outcome becomes the value (or the
\* exception) of that call's await expression
Deliver(frames, i, outcome) ==
    [frames EXCEPT ![i].pc = "ready", ![i].o = outcome]

InitConcurrent ==
    /\ env = [k \in EnvKeys |-> Unread]
    /\ pc = "concurrent"
    /\ routers = [g \in Groups |-> NotBuilt]
    /\ appRoutes = <<>>
    /\ resolutions = [g \in Groups |-> 0]
    /\ created = {}
    /\ lastTask = NoTask
    /\ discovery = NoDiscovery
    /\ probe = NoProbe
    /\ request = NoRequest
    /\ query = NoQuery
    /\ invocations = [i \in 1..MaxInvocations |-> Idle]

\* a call starts and runs up to its await, or to its return when it reaches no adapter
Enter ==
    /\ pc = "concurrent"
    /\ \E i \in DOMAIN invocations, task \in ServerTasks :
       \E e \in (IF task.router = "filesystem" THEN EnvWhenRead(env, "filesystem") ELSE {env}) :
         LET serial == resolutions["filesystem"] + 1
             out == on_task(e, task, NotInvoked, serial)
             resolved == out.resolution.kind # "none"
             others == InFlight(invocations)
             frame == Suspended(task, serial, others # {})
         IN  /\ invocations[i].pc = "idle"
             /\ env' = e
             /\ resolutions' = (IF resolved THEN Count(resolutions, "filesystem") ELSE resolutions)
             /\ created' = (IF resolved THEN Instantiated(created, "filesystem", out.resolution) ELSE created)
             /\ invocations' = [Overlap(invocations, others) EXCEPT
                                   ![i] = IF out.body.calls = <<>> THEN Done(frame, out) ELSE frame]
             /\ UNCHANGED <<pc, routers, appRoutes, lastTask, discovery, probe, request, query>>

\* the adapter operation one call is waiting for returns or raises
Finish ==
    /\ pc = "concurrent"
    /\ \E i \in DOMAIN invocations :
         /\ invocations[i].pc = "awaiting"
         /\ \E outcome \in Outcomes(invocations[i].task.command) :
              invocations' = [Deliver(invocations, i, outcome) EXCEPT ![i].finished = outcome]
    /\ UNCHANGED <<env, pc, routers, appRoutes, resolutions, created, lastTask, discovery, probe,
                   request, query>>

\* the call continues after its await and returns
Resume ==
    /\ pc = "concurrent"
    /\ \E i \in DOMAIN invocations :
         /\ invocations[i].pc = "ready"
         /\ invocations' = [invocations EXCEPT
               ![i] = Done(@, on_task(env, @.task, @.o, @.serial))]
    /\ UNCHANGED <<env, pc, routers, appRoutes, resolutions, created, lastTask, discovery, probe,
                   request, query>>

NextConcurrent == Enter \/ Finish \/ Resume

SpecConcurrent == InitConcurrent /\ [][NextConcurrent]_vars

----------------------------------------------------------------------------
(* Request handlers of the task, compute and account groups.  A request is routed to one
   registration; FastAPI runs the dependencies of that registration and, when none of
   them raised, the handler. *)

\* most projects get_projects returns
MaxProjects == 2

\* a registration with what decides its protection: guarded tells whether
\* dependencies=[Depends(router.current_user)] is among the decorator's arguments
Endpoint(group, method, path, name, guarded) ==
    [group |-> group, method |-> method, path |-> path, name |-> name, guarded |-> guarded]

TaskEndpoints ==
    {Endpoint("task", "GET", "/{task_id:str}", "get_task", TRUE),
     Endpoint("task", "GET", "", "get_tasks", TRUE),
     Endpoint("task", "GET", "/", "get_tasks", FALSE),
     Endpoint("task", "DELETE", "/{task_id:str}", "delete_task", TRUE)}

ComputeEndpoints ==
    {Endpoint("compute", "POST", "/job/{resource_id:str}", "submit_job", TRUE),
     Endpoint("compute", "PUT", "/job/{resource_id:str}/{job_id:str}", "update_job", TRUE),
     Endpoint("compute", "GET", "/status/{resource_id:str}/{job_id:str}", "get_job_status", TRUE),
     Endpoint("compute", "POST", "/status/{resource_id:str}", "get_job_statuses", TRUE),
     Endpoint("compute", "DELETE", "/cancel/{resource_id:str}/{job_id:str}", "cancel_job", TRUE)}

AccountEndpoints ==
    {Endpoint("account", "GET", "/capabilities", "get_capabilities", FALSE),
     Endpoint("account", "GET", "/capabilities/{capability_id}", "get_capability", FALSE),
     Endpoint("account", "GET", "/projects", "get_projects", TRUE),
     Endpoint("account", "GET", "/projects/{project_id}", "get_project", TRUE),
     Endpoint("account", "GET", "/projects/{project_id}/project_allocations",
              "get_project_allocations", TRUE),
     Endpoint("account", "GET", "/projects/{project_id}/project_allocations/{project_allocation_id}",
              "get_project_allocation", TRUE),
     Endpoint("account", "GET",
              "/projects/{project_id}/project_allocations/{project_allocation_id}/user_allocations",
              "get_user_allocations", TRUE),
     Endpoint("account", "GET",
              "/projects/{project_id}/project_allocations/{project_allocation_id}/user_allocations/{user_allocation_id}",
              "get_user_allocation", TRUE)}

\* one call of an adapter operation (or of the dependency current_user) with the argument
\* that matters here
Call(op, arg) == [op |-> op, arg |-> arg]

\* how a request ends: the status and detail of the answer, the value returned, and the
\* calls made on the way
Response(body, calls) == [status_code |-> 200, detail |-> "", body |-> body, calls |-> calls]

HTTPException(status_code, detail, calls) ==
    [status_code |-> status_code, detail |-> detail, body |-> PyNone, calls |-> calls]

\* an exception no handler catches
ServerError(calls) == HTTPException(500, "Internal Server Error", calls)

\* next((x for x in items if x.id == id), None)
NextById(items, id) ==
    LET at == {i \in 1..Len(items) : items[i].s = <<id>>}
    IN  IF at = {} THEN PyNone ELSE items[CHOOSE i \in at : \A j \in at : i <= j]

\* a variant that goes on although get_user returned no user
WithUser_unchecked(state, w, rest) ==
    IF state.current_user_id = NoAttribute THEN ServerError(<<>>)
    ELSE [rest EXCEPT !.calls = <<Call("get_user", state.current_user_id)>> \o @]

\* the beginning of every handler that reads the identity: the arguments of get_user are
\* read from request.state (an attribute it lacks raises AttributeError), get_user is
\* awaited, and no user ends the request; rest is what the handler does with a user
WithUser(state, w, rest) ==
    IF state.current_user_id = NoAttribute THEN ServerError(<<>>)
    ELSE IF ~IsTrue(w.user) THEN HTTPException(404, "User not found", <<Call("get_user", state.current_user_id)>>)
    ELSE [rest EXCEPT !.calls = <<Call("get_user", state.current_user_id)>> \o @]

get_task(state, w) ==
    WithUser(state, w,
        LET calls == <<Call("get_task", w.user)>>
        IN  IF ~IsTrue(w.task) THEN HTTPException(404, "Task t1 not found", calls)
            ELSE Response(w.task, calls))

get_tasks(state, w) == WithUser(state, w, Response(w.task, <<Call("get_tasks", w.user)>>))

delete_task(state, w) ==
    WithUser(state, w, Response(Str(<<"Task t1 deleted successfully">>), <<Call("delete_task", w.user)>>))

\* the compute handlers look the resource up with the status group's adapter first
ComputeHandler(operation, state, w) ==
    WithUser(state, w,
        Response(IF operation = "cancel_job" THEN PyNone ELSE Model("job"),
                 <<Call("get_resource", Str(<<"r1">>)), Call(operation, w.user)>>))

submit_job(state, w) == ComputeHandler("submit_job", state, w)

update_job(state, w) == ComputeHandler("update_job", state, w)

get_job_status(state, w) == ComputeHandler("get_job", state, w)

get_job_statuses(state, w) == ComputeHandler("get_jobs", state, w)

cancel_job(state, w) == ComputeHandler("cancel_job", state, w)

get_capabilities(state, w) == Response(Model("capabilities"), <<Call("get_capabilities", PyNone)>>)

get_capability(state, w) == Response(Model("capability"), <<Call("get_capabilities", PyNone)>>)

get_projects(state, w) == WithUser(state, w, Response(Model("projects"), <<Call("get_projects", w.user)>>))

get_project(state, w) ==
    WithUser(state, w,
        LET calls == <<Call("get_projects", w.user)>>
            pp == NextById(w.projects, w.project_id)
        IN  IF ~IsTrue(pp) THEN HTTPException(404, "Project not found", calls)
            ELSE Response(pp, calls))

get_project_allocations(state, w) ==
    WithUser(state, w,
        LET project == NextById(w.projects, w.project_id)
            calls == <<Call("get_projects", w.user)>>
            asked == Append(calls, Call("get_project_allocations", project))
        IN  IF ~IsTrue(project) THEN HTTPException(404, "Project not found", calls)
            ELSE IF w.allocations.kind = "raise" THEN ServerError(asked)
            ELSE Response(Model("project allocations"), asked))

get_project_allocation(state, w) ==
    WithUser(state, w,
        LET project == NextById(w.projects, w.project_id)
            asked == <<Call("get_projects", w.user), Call("get_project_allocations", project)>>
            pa == NextById(w.allocations.items, w.project_allocation_id)
        IN  IF w.allocations.kind = "raise" THEN ServerError(asked)
            ELSE IF ~IsTrue(pa) THEN HTTPException(404, "Project allocation not found", asked)
            ELSE Response(pa, asked))

get_user_allocations(state, w) ==
    WithUser(state, w,
        LET project == NextById(w.projects, w.project_id)
            calls == <<Call("get_projects", w.user)>>
            asked == Append(calls, Call("get_project_allocations", project))
            pa == NextById(w.allocations.items, w.project_allocation_id)
        IN  IF ~IsTrue(project) THEN HTTPException(404, "Project not found", calls)
            ELSE IF w.allocations.kind = "raise" THEN ServerError(asked)
            ELSE IF ~IsTrue(pa) THEN HTTPException(404, "Project allocation not found", asked)
            ELSE Response(Model("user allocations"), Append(asked, Call("get_user_allocations", pa))))

get_user_allocation(state, w) ==
    WithUser(state, w,
        LET project == NextById(w.projects, w.project_id)
            calls == <<Call("get_projects", w.user)>>
            asked == Append(calls, Call("get_project_allocations", project))
            pa == NextById(w.allocations.items, w.project_allocation_id)
            all == Append(asked, Call("get_user_allocations", pa))
            ua == NextById(w.user_allocations, w.user_allocation_id)
        IN  IF ~IsTrue(project) THEN HTTPException(404, "Project not found", calls)
            ELSE IF w.allocations.kind = "raise" THEN ServerError(asked)
            ELSE IF ~IsTrue(pa) THEN HTTPException(404, "Project allocation not found", asked)
            ELSE IF ~IsTrue(ua) THEN HTTPException(404, "User allocation not found", all)
            ELSE Response(ua, all))

\* the handler a registration names
Handler(name, state, w) ==
    CASE name = "get_task" -> get_task(state, w)
      [] name = "get_tasks" -> get_tasks(state, w)
      [] name = "delete_task" -> delete_task(state, w)
      [] name = "submit_job" -> submit_job(state, w)
      [] name = "update_job" -> update_job(state, w)
      [] name = "get_job_status" -> get_job_status(state, w)
      [] name = "get_job_statuses" -> get_job_statuses(state, w)
      [] name = "cancel_job" -> cancel_job(state, w)
      [] name = "get_capabilities" -> get_capabilities(state, w)
      [] name = "get_capability" -> get_capability(state, w)
      [] name = "get_projects" -> get_projects(state, w)
      [] name = "get_project" -> get_project(state, w)
      [] name = "get_project_allocations" -> get_project_allocations(state, w)
      [] name = "get_project_allocation" -> get_project_allocation(state, w)
      [] name = "get_user_allocations" -> get_user_allocations(state, w)
      [] name = "get_user_allocation" -> get_user_allocation(state, w)

\* no dependency stands before the handler
NotGated == [kind |-> "none", status_code |-> 0, detail |-> ""]

\* one request on a registration: its dependencies, then its handler
Handle(req) ==
    LET gate == IF req.endpoint.guarded
                THEN current_user(req, req.api_key, TRUE, req.world.decoding)
                ELSE [outcome |-> NotGated, state |-> req.state, calls |-> <<>>]
        before == IF req.endpoint.guarded THEN <<Call("current_user", Str(req.api_key))>> ELSE <<>>
        entered == gate.outcome.kind # "raise"
        out == IF entered THEN Handler(req.endpoint.name, gate.state, req.world)
               ELSE HTTPException(gate.outcome.status_code, gate.outcome.detail, <<>>)
    IN  [req EXCEPT !.op = "handled", !.gate = gate.outcome, !.state = gate.state,
                    !.entered = entered, !.status_code = out.status_code, !.detail = out.detail,
                    !.body = out.body, !.calls = before \o out.calls]

Users == {PyNone, Model("alice")}

ProjectIds == {"p1", "p2"}

\* what get_projects returns: up to MaxProjects projects
ProjectLists == UNION {[1..n -> {Model(p) : p \in ProjectIds}] : n \in 0..MaxProjects}

\* what get_project_allocations does: it raises, or returns a list
AllocationOutcomes ==
    {[kind |-> "raise", items |-> <<>>], [kind |-> "return", items |-> <<>>],
     [kind |-> "return", items |-> <<Model("pa1")>>]}

\* what the adapters do for a request that makes no use of projects
NoProjects ==
    [projects |-> <<>>, project_id |-> "p1", allocations |-> [kind |-> "return", items |-> <<>>],
     project_allocation_id |-> "pa1", user_allocations |-> <<>>, user_allocation_id |-> "ua1"]

World(decoding, user, task, p) ==
    [decoding |-> decoding, user |-> user, task |-> task, projects |-> p.projects,
     project_id |-> p.project_id, allocations |-> p.allocations,
     project_allocation_id |-> p.project_allocation_id, user_allocations |-> p.user_allocations,
     user_allocation_id |-> p.user_allocation_id]

\* the project side of a request on an account route that takes a project_id
ProjectWorlds ==
    [projects : ProjectLists, project_id : {"p1", "p3"}, allocations : AllocationOutcomes,
     project_allocation_id : {"pa1", "pa9"}, user_allocations : {<<>>, <<Model("ua1")>>},
     user_allocation_id : {"ua1"}]

TakesProjectId ==
    {"get_project", "get_project_allocations", "get_project_allocation", "get_user_allocations",
     "get_user_allocation"}

Worlds(endpoint) ==
    {World(d, u, t, p) :
        d \in Decodings, u \in Users,
        t \in (IF endpoint.group = "task" THEN {PyNone, Model("task")} ELSE {PyNone}),
        p \in (IF endpoint.name \in TakesProjectId THEN ProjectWorlds ELSE {NoProjects})}

\* a request routed to a registration, with what the adapters will do for it
Received(endpoint, key, w) ==
    [op |-> "received", endpoint |-> endpoint,
     headers |-> [h \in {"x-forwarded-for", "http_x_real_ip", "x-real-ip"} |-> NoHeader],
     client_host |-> <<"10.0.0.9">>, api_key |-> key, world |-> w,
     state |-> FreshState, gate |-> NotGated, entered |-> FALSE, status_code |-> 0, detail |-> "",
     body |-> PyNone, calls |-> <<>>]

InitHandlers ==
    /\ env = [k \in EnvKeys |-> Unread]
    /\ pc = "handlers"
    /\ routers = [g \in Groups |-> NotBuilt]
    /\ appRoutes = <<>>
    /\ resolutions = [g \in Groups |-> 0]
    /\ created = {}
    /\ lastTask = NoTask
    /\ discovery = NoDiscovery
    /\ probe = NoProbe
    /\ \E endpoint \in TaskEndpoints \cup ComputeEndpoints \cup AccountEndpoints :
       \E w \in Worlds(endpoint) : request = Received(endpoint, <<"key-2">>, w)
    /\ query = NoQuery
    /\ invocations = NoInvocations

ServeTask ==
    /\ pc = "handlers" /\ request.op = "received" /\ request.endpoint \in TaskEndpoints
    /\ request' = Handle(request)
    /\ UNCHANGED <<env, pc, routers, appRoutes, resolutions, created, lastTask, discovery, probe,
                   query, invocations>>

ServeCompute ==
    /\ pc = "handlers" /\ request.op = "received" /\ request.endpoint \in ComputeEndpoints
    /\ request' = Handle(request)
    /\ UNCHANGED <<env, pc, routers, appRoutes, resolutions, created, lastTask, discovery, probe,
                   query, invocations>>

ServeAccount ==
    /\ pc = "handlers" /\ request.op = "received" /\ request.endpoint \in AccountEndpoints
    /\ request' = Handle(request)
    /\ UNCHANGED <<env, pc, routers, appRoutes, resolutions, created, lastTask, discovery, probe,
                   query, invocations>>

NextHandlers == ServeTask \/ ServeCompute \/ ServeAccount

SpecHandlers == InitHandlers /\ [][NextHandlers]_vars

----------------------------------------------------------------------------
(* Properties of the task dispatcher (SpecWorker) *)

\* text contains the token s
Contains(text, s) == \E i \in 1..Len(text) : text[i] = s

\* text contains the message msg, token for token
Embeds(text, msg) == \E i \in 0..(Len(text) - Len(msg)) : SubSeq(text, i + 1, i + Len(msg)) = msg

\* the 18 commands of router "filesystem"
KnownCommands == {"chmod", "chown", "mkdir", "symlink", "ls", "stat", "head", "view", "tail",
                  "checksum", "rm", "compress", "extract", "mv", "cp", "download", "upload", "file"}

KnownPair(task) == task.router = "filesystem" /\ task.command \in KnownCommands

\* the exceptions a call can meet: while resolving the adapter, while deserializing
\* task.args, inside the adapter operation
ResolutionRaised == lastTask.resolution.kind = "raise"

ResolvedAbsent == lastTask.resolution.kind = "return" /\ lastTask.resolution.adapter = NoAdapter

ResolvedInstance == lastTask.resolution.kind = "return" /\ lastTask.resolution.adapter # NoAdapter

TakesRequestModel(command) ==
    command \in {"chmod", "chown", "mkdir", "symlink", "compress", "extract", "mv", "cp"}

ArgsDeserialize(task) ==
    IF TakesRequestModel(task.command) THEN task.args.request_model = "valid" ELSE task.args.keywords_bind

OperationRaised == lastTask.outcome.kind = "raise"

OperationReturned == lastTask.outcome.kind = "return"

\* C1: on_task always returns a pair; whenever resolving the filesystem adapter raised or gave
\* no adapter for a known command, deserializing task.args failed, or the adapter operation
\* raised, the status is failed and the text is "Error: " followed by the error message
C1_ExceptionsBecomeFailed ==
    lastTask.called =>
      /\ lastTask.returned
      /\ lastTask.status \in TaskStatus
      /\ ResolutionRaised =>
            lastTask.status = "failed" /\ Embeds(lastTask.text, lastTask.resolution.exc)
      /\ (KnownPair(lastTask.task) /\ ~ResolutionRaised /\ (ResolvedAbsent \/ ~ArgsDeserialize(lastTask.task))) =>
            lastTask.status = "failed" /\ lastTask.text[1] = "Error: " /\ Len(lastTask.text) > 1
      /\ OperationRaised =>
            lastTask.status = "failed" /\ lastTask.text = <<"Error: ">> \o lastTask.outcome.msg

\* a call in which resolving the filesystem adapter raised, reported as a failed task
C1_Witness ==
    lastTask.called /\ ResolutionRaised /\ lastTask.returned /\ lastTask.status = "failed"

\* C2: the status on_task returns is completed or failed, never pending, active or canceled
C2_StatusCompletedOrFailed ==
    lastTask.called => lastTask.returned /\ lastTask.status \in {"completed", "failed"}

\* a call that ended completed after one that could not be: both outcomes occur
C2_Witness ==
    /\ lastTask.called /\ lastTask.status = "completed"
    /\ lastTask.task.command = "download" /\ resolutions["filesystem"] > 1

\* the text the claim expects for a response: the value itself for download, the
\* confirmation for upload, the JSON dump of the model otherwise
SerializedResponse(command, value) ==
    IF command = "download" THEN value.s
    ELSE IF command = "upload" THEN <<"File uploaded successfully">>
    ELSE <<"{">> \o value.s \o <<"}">>

\* C3 (as claimed): for a known pair, when deserialization and the adapter operation finish
\* without raising, the status is completed and the text is the serialized response,
\* whatever the adapter returned
C3_SuccessIsCompleted ==
    (lastTask.called /\ KnownPair(lastTask.task) /\ OperationReturned) =>
      /\ lastTask.status = "completed"
      /\ lastTask.text = SerializedResponse(lastTask.task.command, lastTask.outcome.value)

\* C4 (as claimed): for an unknown pair the status is failed and the text contains the
\* router name and the command name
C4_UnknownNamesRouterAndCommand ==
    (lastTask.called /\ ~KnownPair(lastTask.task)) =>
      /\ lastTask.status = "failed"
      /\ Contains(lastTask.text, lastTask.task.router)
      /\ Contains(lastTask.text, lastTask.task.command)

\* C4 (amended): for an unknown pair the status is failed; the text contains the router name
\* and the command name unless the router is "filesystem" and resolving its adapter raised,
\* and then the text is "Error: " followed by that error
C4_UnknownFailsAndNamesUnlessResolutionRaised ==
    (lastTask.called /\ ~KnownPair(lastTask.task)) =>
      /\ lastTask.status = "failed"
      /\ ~ResolutionRaised =>
            Contains(lastTask.text, lastTask.task.router) /\ Contains(lastTask.text, lastTask.task.command)
      /\ ResolutionRaised =>
            lastTask.task.router = "filesystem" /\ lastTask.text = <<"Error: ">> \o lastTask.resolution.exc

\* an unknown command of router "filesystem" whose adapter resolved, reported with both names
C4_Witness ==
    /\ lastTask.called /\ lastTask.task.router = "filesystem" /\ lastTask.task.command = "x"
    /\ ResolvedInstance /\ lastTask.status = "failed"
    /\ Contains(lastTask.text, "filesystem") /\ Contains(lastTask.text, "x")

\* C5 (as claimed): a known command invokes exactly its same-named operation, once
C5_ExactlyOneInvocation ==
    (lastTask.called /\ KnownPair(lastTask.task)) => lastTask.body.calls = <<lastTask.task.command>>

\* C5 (amended): a known command invokes no operation but its same-named one, at most once,
\* and exactly once when the adapter resolved to an instance and task.args deserialized
C5_SameNamedOperationAtMostOnce ==
    (lastTask.called /\ KnownPair(lastTask.task)) =>
      /\ lastTask.body.calls \in {<<>>, <<lastTask.task.command>>}
      /\ lastTask.body.calls = <<lastTask.task.command>>
            <=> (ResolvedInstance /\ ArgsDeserialize(lastTask.task))

\* "head" reached the adapter's head operation
C5_Witness ==
    /\ lastTask.called /\ lastTask.task.router = "filesystem" /\ lastTask.task.command = "head"
    /\ ResolvedInstance /\ lastTask.body.calls = <<"head">>

\* C9 (as claimed): create_adapter runs at most once per group in a process
C9_ResolvedOncePerGroup == \A g \in Groups : resolutions[g] <= 1

----------------------------------------------------------------------------
(* Properties of adapter resolution (SpecResolve) *)

Probed == probe.op = "create_adapter"

ProbedKey == env[EnvKey(probe.router_name)]

FlagEnabled == env[ShowMissingKey] \in {"true", "1", "on", "yes"}

ProbedAbsent == probe.out.kind = "return" /\ probe.out.adapter = NoAdapter

----------------------------------------------------------------------------
(* Properties of the API server process (Spec) *)

Constructed == probe.op = "IriRouter"

OwnAbsent == probe.own.kind = "return" /\ probe.own.adapter = NoAdapter

OwnResolved == probe.own.kind = "return" /\ probe.own.adapter # NoAdapter

Hidden(router_name) == routers[router_name].built /\ ~routers[router_name].include_in_schema

Visible(router_name) == routers[router_name].built /\ routers[router_name].include_in_schema

\* C7 (as claimed): a group whose adapter resolved to absent is constructed, and hidden;
\* a group whose adapter resolved, with no task adapter requested, is visible
C7_AbsentIsHiddenNotFailed ==
    Constructed =>
      /\ OwnAbsent => probe.kind = "return" /\ Hidden(probe.router_name)
      /\ (OwnResolved /\ probe.task_router_adapter = NoneName) => Visible(probe.router_name)

\* C7 (amended): a group whose adapter resolved to absent is hidden once constructed, and
\* its construction fails only when a task adapter was requested and resolving the "task"
\* adapter raised; a group whose adapter resolved, with no task adapter requested, is visible
C7_AbsentIsHiddenUnlessTaskResolutionFails ==
    Constructed =>
      /\ OwnAbsent =>
            /\ probe.kind = "return" => Hidden(probe.router_name)
            /\ probe.kind = "raise" <=> (probe.asked_task /\ probe.task.kind = "raise")
      /\ (OwnResolved /\ probe.task_router_adapter = NoneName) =>
            probe.kind = "return" /\ Visible(probe.router_name)

\* a group with no adapter was constructed and is hidden
C7_Witness ==
    Constructed /\ OwnAbsent /\ probe.kind = "return" /\ Hidden(probe.router_name)

\* the items of the discovery answer that belong to a group
GroupItems(router_name) ==
    {i \in 1..Len(discovery.items) :
        /\ Len(discovery.items[i].path) >= 2
        /\ discovery.items[i].path[2] = RouterPrefix(router_name)}

\* C8 (as claimed): no route of a group whose adapter resolved to absent is in the list
\* the discovery endpoint returns
C8_AbsentGroupNotDiscovered ==
    discovery.called => \A g \in Groups : routers[g].adapter = NoAdapter => GroupItems(g) = {}

\* the implementation configured for a group: its key, or the demonstration one
Configured(router_name) ==
    IF env[EnvKey(router_name)] = Unset THEN "app.demo_adapter.DemoAdapter" ELSE env[EnvKey(router_name)]

\* the implementation is a loadable class that does not implement the interface
NonConforming(adapter_name, router_adapter) ==
    /\ Len(rsplit(adapter_name)) = 2
    /\ rsplit(adapter_name) \in ModuleClasses
    /\ ~issubclass(rsplit(adapter_name), router_adapter)

\* C10: when the configured implementation does not implement the required interface,
\* create_adapter raises an error that names it and returns no adapter, no instance of it
\* has been created, and the construction of the route group fails with that error
C10_NonConformingRaisesBeforeInstantiation ==
    /\ \A c \in created : ~NonConforming(c[1], c[2])
    /\ (Constructed /\ NonConforming(Configured(probe.router_name), probe.router_adapter)) =>
         /\ probe.own.kind = "raise" /\ probe.own.adapter = NoAdapter
         /\ Contains(probe.own.exc, Configured(probe.router_name))
         /\ probe.own.instantiated = ""
         /\ probe.kind = "raise" /\ probe.exc = probe.own.exc /\ pc = "crashed"
         /\ ~routers[probe.router_name].built
    /\ (Constructed /\ probe.asked_task /\ NonConforming(Configured("task"), probe.task_router_adapter)) =>
         /\ probe.task.kind = "raise" /\ probe.task.adapter = NoAdapter
         /\ Contains(probe.task.exc, Configured("task"))
         /\ probe.task.instantiated = ""
         /\ probe.kind = "raise" /\ probe.exc = probe.task.exc /\ pc = "crashed"
         /\ ~routers[probe.router_name].built

\* the status adapter configured for another group: start-up stopped with the error
C10_Witness ==
    /\ Constructed /\ pc = "crashed" /\ env[EnvKey(probe.router_name)] = "site.adapters.StatusAdapter"
    /\ probe.exc = <<"site.adapters.StatusAdapter", " should implement FacilityAdapter">>

----------------------------------------------------------------------------
(* Properties of repeated resolution (Spec) *)

----------------------------------------------------------------------------
(* Properties of the auth gate (SpecAuth) *)

\* current_user has run on the request, behind a present adapter
Gated == request.op = "current_user" /\ request.adapter_present

DecodingRaised == request.behaviour.kind = "raise"

\* get_current_user returned None or the empty string
DecodedEmpty ==
    /\ request.behaviour.kind = "return"
    /\ request.behaviour.value \in {PyNone, Str(<<>>)}

DecodedUser == request.behaviour.kind = "return" /\ ~DecodedEmpty

\* C12: when the adapter's get_current_user raises, current_user fails with 401 (never
\* 403); when it returns an empty or absent identifier, current_user fails with 403
\* (never 401)
C12_FailuresAreSeparate ==
    Gated =>
      /\ DecodingRaised => (request.outcome.kind = "raise" /\ request.outcome.status_code = 401)
      /\ DecodedEmpty => (request.outcome.kind = "raise" /\ request.outcome.status_code = 403)

\* the adapter raised and the request was refused with 401
C12_Witness == Gated /\ DecodingRaised /\ request.outcome.status_code = 401

\* C13: request.state carries the user identifier and the raw credential exactly when
\* get_current_user returned a non-empty identifier; after either failure it carries
\* neither
C13_ContextSetOnlyOnSuccess ==
    Gated =>
      IF DecodedUser
      THEN /\ request.outcome.kind = "return"
           /\ request.state.current_user_id = request.behaviour.value
           /\ request.state.api_key = Str(request.api_key)
      ELSE /\ request.outcome.kind = "raise"
           /\ request.state.current_user_id = NoAttribute
           /\ request.state.api_key = NoAttribute

\* a decoded user and the credential are in request.state
C13_Witness ==
    /\ Gated /\ DecodedUser
    /\ request.state.current_user_id = Str(<<"alice">>)
    /\ request.state.api_key = Str(<<"Bearer ", "key-1">>)

\* ip is the first comma-separated entry of the header value s, without the blanks around it
TrimmedFirstEntry(s, ip) ==
    \E n \in 0..Len(s) : \E a \in 0..n : \E b \in a..n :
      /\ n = Len(s) \/ s[n + 1] = ","
      /\ \A i \in 1..n : s[i] # ","
      /\ \A i \in 1..a : s[i] = " "
      /\ \A i \in (b + 1)..n : s[i] = " "
      /\ ip = SubSeq(s, a + 1, b)
      /\ ip # <<>> => (ip[1] # " " /\ ip[Len(ip)] # " ")

NonEmptyHeader(name) == request.headers[name].present /\ request.headers[name].s # <<>>

\* C14: get_client_ip returns the trimmed first entry of a non-empty X-Forwarded-For;
\* else a non-empty HTTP_X_REAL_IP; else a non-empty x-real-ip; else the peer address
C14_ClientIpPrecedence ==
    request.op = "get_client_ip" =>
      IF NonEmptyHeader("x-forwarded-for")
      THEN TrimmedFirstEntry(request.headers["x-forwarded-for"].s, request.client_ip)
      ELSE IF NonEmptyHeader("http_x_real_ip")
      THEN request.client_ip = request.headers["http_x_real_ip"].s
      ELSE IF NonEmptyHeader("x-real-ip")
      THEN request.client_ip = request.headers["x-real-ip"].s
      ELSE request.client_ip = request.client_host

\* an X-Forwarded-For of two entries wins over both real-ip headers
C14_Witness ==
    /\ request.op = "get_client_ip"
    /\ request.headers["x-forwarded-for"].s = <<" ", "10.0.0.1", ",">>
    /\ NonEmptyHeader("http_x_real_ip") /\ NonEmptyHeader("x-real-ip")
    /\ request.client_ip = <<"10.0.0.1">>

----------------------------------------------------------------------------
(* Properties of the filter engine (SpecFilter) *)

\* a find has been called with exactly the arguments in given supplied
OnlyGiven(op, given) ==
    /\ pc = "filter" /\ query.applied /\ query.op = op
    /\ {p \in Params : query.args[p].type # "none"} = given

\* the instant of a timestamp, one without an offset being read as UTC
UtcInstant(d) == d.wall - (IF d.aware THEN d.offset ELSE 0)

\* the call returned exactly the elements of its input that are in matches, in input order
ReturnedExactly(matches) ==
    /\ query.result.kind = "return"
    /\ query.result.items = SelectSeq(query.items, LAMBDA e : e \in matches)

\* the entities of the collection queried
Queried == {query.items[i] : i \in 1..Len(query.items)}

\* C15: a find called with no filter argument returns its input list, the same elements
\* in the same order
C15_NoPredicatesIsIdentity ==
    \A op \in Finds :
      OnlyGiven(op, {}) => (query.result.kind = "return" /\ query.result.items = query.items)

\* Incident.find with no argument has returned a list of two different incidents as it was
C15_Witness ==
    /\ OnlyGiven("Incident.find", {})
    /\ Len(query.items) = 2 /\ query.items[1] # query.items[2]
    /\ query.result.items = query.items

\* elements a call returned; a call that raised returned none
ReturnedCount(r) == IF r.kind = "return" THEN Len(r.items) ELSE 0

\* C16: a find called with one more argument than the call before it, on the same
\* collection, never returns more elements than that call returned
C16_AddingPredicateNeverReturnsMore ==
    (pc = "filter" /\ query.applied /\ query.previous.kind # "none" /\ query.result.kind = "return") =>
      Len(query.result.items) <= ReturnedCount(query.previous)

\* C17: Incident.find with only time_ = t returns, of the incidents that have an end,
\* exactly those with start <= t < end
C17_TimeContainment ==
    OnlyGiven("Incident.find", {"time_"}) =>
      /\ query.result.kind = "return"
      /\ \A i \in 1..Len(query.items) :
           LET e == query.items[i] IN
           e.end.type = "datetime" =>
             ((\E j \in 1..Len(query.result.items) : query.result.items[j] = e)
                <=> (/\ UtcInstant(e.start) <= UtcInstant(query.args["time_"])
                     /\ UtcInstant(query.args["time_"]) < UtcInstant(e.end)))

\* C18: Event.find with only time_ keeps exactly the events that occurred at time_; with
\* only from_, those that occurred at or after from_; with only to, those that occurred
\* before to
C18_EventTimeBounds ==
    /\ OnlyGiven("Event.find", {"time_"}) =>
          ReturnedExactly({e \in Queried : UtcInstant(e.occurred_at) = UtcInstant(query.args["time_"])})
    /\ OnlyGiven("Event.find", {"from_"}) =>
          ReturnedExactly({e \in Queried : UtcInstant(e.occurred_at) >= UtcInstant(query.args["from_"])})
    /\ OnlyGiven("Event.find", {"to"}) =>
          ReturnedExactly({e \in Queried : UtcInstant(e.occurred_at) < UtcInstant(query.args["to"])})

\* every incident of the collection has an end
AllEnded == \A i \in 1..Len(query.items) : query.items[i].end.type = "datetime"

\* C19: a find given one time argument returns, without an error, what the comparison of
\* the UTC instants gives, whichever of the argument and the entity timestamps carry an
\* offset
C19_TimeComparisonsAreUtc ==
    /\ \A op \in Finds :
         OnlyGiven(op, {"modified_since"}) =>
           ReturnedExactly({e \in Queried : UtcInstant(e.last_modified) >= UtcInstant(query.args["modified_since"])})
    /\ OnlyGiven("Event.find", {"from_"}) =>
          ReturnedExactly({e \in Queried : UtcInstant(e.occurred_at) >= UtcInstant(query.args["from_"])})
    /\ OnlyGiven("Event.find", {"to"}) =>
          ReturnedExactly({e \in Queried : UtcInstant(e.occurred_at) < UtcInstant(query.args["to"])})
    /\ OnlyGiven("Event.find", {"time_"}) =>
          ReturnedExactly({e \in Queried : UtcInstant(e.occurred_at) = UtcInstant(query.args["time_"])})
    /\ (OnlyGiven("Incident.find", {"from_"}) /\ AllEnded) =>
          ReturnedExactly({e \in Queried : UtcInstant(e.start) >= UtcInstant(query.args["from_"])})
    /\ (OnlyGiven("Incident.find", {"to"}) /\ AllEnded) =>
          ReturnedExactly({e \in Queried : UtcInstant(e.end) < UtcInstant(query.args["to"])})
    /\ (OnlyGiven("Incident.find", {"time_"}) /\ AllEnded) =>
          ReturnedExactly({e \in Queried : /\ UtcInstant(e.start) <= UtcInstant(query.args["time_"])
                                           /\ UtcInstant(query.args["time_"]) < UtcInstant(e.end)})

\* C20: NamedObject.find with only a description keeps exactly the entities whose
\* description contains the text, case-sensitively; an entity without a description is
\* dropped and causes no error
C20_DescriptionSubstring ==
    OnlyGiven("NamedObject.find", {"description"}) =>
      ReturnedExactly({e \in Queried : /\ e.description.type = "str"
                                       /\ Embeds(e.description.s, query.args["description"].s)})

\* C21: Resource.find, Event.find and Incident.find return a list for every collection
\* and every choice of filter arguments; none of them raises
C21_FindsAreTotal ==
    (pc = "filter" /\ query.applied /\ query.op \in {"Resource.find", "Event.find", "Incident.find"}) =>
      query.result.kind = "return"

\* the filter arguments supplied to the call
Supplied == {p \in Params : query.args[p].type # "none"}

\* the entity e satisfies the predicate of the filter argument p
Satisfies(e, p) ==
    CASE p = "name" -> e.name = query.args[p]
      [] p = "description" -> e.description.type = "str" /\ Embeds(e.description.s, query.args[p].s)
      [] p = "modified_since" -> UtcInstant(e.last_modified) >= UtcInstant(query.args[p])
      [] p = "group" -> e.group = query.args[p]
      [] p = "resource_type" -> e.resource_type = query.args[p]
      [] p = "status" -> e.status = query.args[p]
      [] p = "type_" -> e.type = query.args[p]
      [] p = "resource_id" -> IF query.op = "Incident.find" THEN query.args[p] \in e.resource_ids
                              ELSE e.resource_id = query.args[p]
      [] p = "from_" -> IF query.op = "Incident.find" THEN UtcInstant(e.start) >= UtcInstant(query.args[p])
                        ELSE UtcInstant(e.occurred_at) >= UtcInstant(query.args[p])
      [] p = "to" -> IF query.op = "Incident.find" THEN UtcInstant(e.end) < UtcInstant(query.args[p])
                     ELSE UtcInstant(e.occurred_at) < UtcInstant(query.args[p])
      [] p = "time_" -> IF query.op = "Incident.find"
                        THEN /\ UtcInstant(e.start) <= UtcInstant(query.args[p])
                             /\ UtcInstant(query.args[p]) < UtcInstant(e.end)
                        ELSE UtcInstant(e.occurred_at) = UtcInstant(query.args[p])

\* C22: a find returns exactly the elements of its input that satisfy every supplied
\* predicate, each once and in input order (for incidents: when each has an end)
C22_ExactSubsequence ==
    (pc = "filter" /\ query.applied /\ (query.op = "Incident.find" => AllEnded)) =>
      ReturnedExactly({e \in Queried : \A p \in Supplied : Satisfies(e, p)})

\* positions of the predicates in the order the specification gives for incidents
SpecifiedOrder == <<"name", "description", "status", "type_", "from_", "to", "time_", "resource_id">>

\* positions of the predicates in the order of the statements of Incident.find
StatementOrder ==
    <<"name", "description", "modified_since", "resource_id", "status", "type_", "from_", "to", "time_">>

\* the steps that ran, ran in the order given: of two steps that are both in order, the
\* one that ran first comes first in order
RanInOrder(steps, order) ==
    \A i, j \in 1..Len(steps) : \A m, n \in 1..Len(order) :
      (i < j /\ steps[i] = order[m] /\ steps[j] = order[n]) => m < n

\* C25 as stated: Incident.find runs its predicates in the order name, description,
\* status, type, from_, to, time_, resource_id, the resource membership being last
C25_ResourceMembershipLast ==
    (pc = "filter" /\ query.applied /\ query.op = "Incident.find") =>
      RanInOrder(query.result.steps, SpecifiedOrder)

\* C25: Incident.find runs its predicates in the order name, description,
\* modified_since, resource_id, status, type, from_, to, time_: the resource membership
\* comes right after the predicates of NamedObject.find and before status
C25_ResourceMembershipAfterNamed ==
    (pc = "filter" /\ query.applied /\ query.op = "Incident.find") =>
      RanInOrder(query.result.steps, StatementOrder)

\* a call given a resource and an end-time bound tested the resource membership first
C25_Witness ==
    /\ pc = "filter" /\ query.applied /\ query.op = "Incident.find"
    /\ query.result.steps = <<"resource_id", "to">>

----------------------------------------------------------------------------
(* Interleaved on_task calls *)

----------------------------------------------------------------------------
(* Tasks of another router *)

\* C26: a step that handles a task whose router is not "filesystem" resolves no adapter
\* (no resolution is counted, no instance is created, the environment is not read), invokes
\* no adapter operation, and returns the failed pair that names the unknown router and
\* command, whatever the command and the args are.
C26_OtherRouterTouchesNoAdapter ==
    [][(lastTask'.called /\ lastTask'.task.router # "filesystem") =>
          /\ resolutions' = resolutions /\ created' = created /\ env' = env
          /\ lastTask'.resolution.kind = "none"
          /\ lastTask'.body.calls = <<>>
          /\ lastTask'.returned /\ lastTask'.status = "failed"
          /\ lastTask'.text = <<"Task was cancelled due to unknown router/command: ",
                                lastTask'.task.router, ":", lastTask'.task.command>>]_vars

\* a command the filesystem router knows, with valid args, sent to another router
C26_Witness ==
    /\ pc = "worker" /\ lastTask.called
    /\ lastTask.task.router = "bogus" /\ lastTask.task.command = "mkdir"
    /\ lastTask.task.args.request_model = "valid"
    /\ lastTask.status = "failed" /\ lastTask.body.calls = <<>>

----------------------------------------------------------------------------
(* Route groups with a task capability *)

WithTaskCapability == Constructed /\ probe.task_router_adapter # NoneName /\ probe.kind = "return"

\* C27: a group constructed with a task capability is visible exactly when its own adapter
\* and the "task" adapter both resolved: an absent task adapter hides it although its own
\* adapter is present, and a group hidden for its absent own adapter stays hidden when the
\* task adapter resolves.
C27_VisibleOnlyIfOwnAndTaskResolved ==
    WithTaskCapability =>
      /\ probe.asked_task
      /\ Visible(probe.router_name) <=> (probe.own.adapter # NoAdapter /\ probe.task.adapter # NoAdapter)
      /\ (probe.own.adapter # NoAdapter /\ probe.task.adapter = NoAdapter) => Hidden(probe.router_name)
      /\ (probe.own.adapter = NoAdapter /\ probe.task.adapter # NoAdapter) => Hidden(probe.router_name)

\* the own adapter is absent, the task adapter resolved, and the group is hidden
C27_Witness ==
    /\ WithTaskCapability
    /\ probe.own.adapter = NoAdapter /\ probe.task.adapter # NoAdapter
    /\ routers[probe.router_name].task_adapter # NoAdapter
    /\ Hidden(probe.router_name)

\* the own adapter is present, the task adapter is absent, and the group is hidden
C27_TaskAbsentReached ==
    /\ WithTaskCapability
    /\ probe.own.adapter # NoAdapter /\ probe.task.adapter = NoAdapter
    /\ Hidden(probe.router_name)

----------------------------------------------------------------------------
(* Protected handlers *)

Handled == pc = "handlers" /\ request.op = "handled"

\* the handlers whose body reads request.state.current_user_id and request.state.api_key
ReadsIdentity ==
    {"get_task", "get_tasks", "delete_task", "submit_job", "update_job", "get_job_status",
     "get_job_statuses", "cancel_job", "get_projects"} \cup TakesProjectId

\* the position of the first call of an operation in the calls of the request, 0 if none
FirstCall(ops) ==
    LET at == {i \in 1..Len(request.calls) : request.calls[i].op \in ops}
    IN  IF at = {} THEN 0 ELSE CHOOSE i \in at : \A j \in at : i <= j

\* C28: the body of a handler that reads the identity runs only on a request on which
\* current_user has run and returned, on every registration of the handler.
C28_IdentityReadersAreGuarded ==
    (Handled /\ request.endpoint.name \in ReadsIdentity /\ request.entered) =>
      /\ FirstCall({"current_user"}) = 1
      /\ request.gate = Passed
      /\ request.state.current_user_id # NoAttribute

\* the operations of the domain adapters the protected handlers end with
DomainOperations ==
    {"get_task", "get_tasks", "delete_task", "submit_job", "update_job", "get_job", "get_jobs",
     "cancel_job", "get_projects"}

\* C29: on every request handled by a handler of the task, compute and account groups that
\* reads the identity, a domain adapter operation is called only after get_user, and
\* get_user only after current_user; when get_user was called and returned no user, the
\* answer is 404 "User not found" and no domain adapter operation is called.
C29_AuthenticateThenUserThenOperation ==
    (Handled /\ request.endpoint.name \in ReadsIdentity) =>
      /\ FirstCall({"get_user"}) # 0 => FirstCall({"current_user"}) = 1 /\ FirstCall({"get_user"}) = 2
      /\ FirstCall(DomainOperations) # 0 =>
            FirstCall({"get_user"}) = 2 /\ FirstCall(DomainOperations) > 2 /\ IsTrue(request.world.user)
      /\ (FirstCall({"get_user"}) # 0 /\ ~IsTrue(request.world.user)) =>
            /\ request.status_code = 404 /\ request.detail = "User not found"
            /\ FirstCall(DomainOperations) = 0

\* an authenticated request to submit a job whose user profile is not found
C29_Witness ==
    /\ Handled /\ request.endpoint.name = "submit_job"
    /\ request.gate = Passed /\ ~IsTrue(request.world.user)
    /\ request.calls = <<Call("current_user", Str(request.api_key)),
                         Call("get_user", request.state.current_user_id)>>
    /\ request.status_code = 404 /\ request.detail = "User not found"

\* an authenticated request whose user is found reaches the domain operation, in order
C29_OperationReached ==
    /\ Handled /\ request.endpoint.name = "delete_task" /\ request.status_code = 200
    /\ request.calls = <<Call("current_user", Str(request.api_key)),
                         Call("get_user", request.state.current_user_id),
                         Call("delete_task", request.world.user)>>

\* the request got as far as looking for its project among the user's projects
LookedForProject ==
    /\ Handled /\ request.endpoint.name \in TakesProjectId
    /\ FirstCall({"get_projects"}) # 0

\* C30: in every account handler that takes a project_id, a project_id that matches none
\* of the user's projects is answered with 404 "Project not found", and
\* get_project_allocations is never called with an absent project.
C30_UnknownProjectIsNotFound ==
    (LookedForProject /\ NextById(request.world.projects, request.world.project_id) = PyNone) =>
      /\ request.status_code = 404 /\ request.detail = "Project not found"
      /\ \A i \in 1..Len(request.calls) :
            request.calls[i].op = "get_project_allocations" => request.calls[i].arg # PyNone

============================================================================
